---------------------------- MODULE Spec2Model ----------------------------
(***************************************************************************)
(* ScanSAfe: the heuristic scoring engine of the email scanner             *)
(* (src/src/components/EmailScanner.tsx) and of the link scanner           *)
(* (src/unnamed/part_001), with the React component state around them.     *)
(*                                                                         *)
(* Texts are TLA+ strings.  The regular expressions of the source are      *)
(* written as syntax trees and run by a backtracking matcher with the      *)
(* priorities of ECMAScript (leftmost alternative first, greedy or lazy    *)
(* quantifiers, capture groups, backreferences, negative lookahead, \b).   *)
(***************************************************************************)
EXTENDS Integers, Sequences, FiniteSets, TLC

(***************************************************************************)
(* The state: App (activeSection), EmailScanner (emailContent,             *)
(* emailIsScanning, emailScanResult) and LinkScanner (url, isScanning,     *)
(* scanResult, scanHistory).  emailPending and linkPending are the scans   *)
(* in flight: the text the handleScan waiting on its timer was started on, *)
(* and the result the awaited analyzeLink has resolved to.  emailCalls     *)
(* records the last two calls of analyzeEmail made by the mounted          *)
(* component (text, findings, result); nothing reads it.  expandedSection  *)
(* of LinkScanner only folds sections of the result card and is left out.  *)
(***************************************************************************)
VARIABLES activeSection,
          emailContent, emailIsScanning, emailScanResult, emailPending, emailCalls,
          url, isScanning, scanResult, scanHistory, linkPending

emailVars == <<emailContent, emailIsScanning, emailScanResult, emailPending, emailCalls>>
linkVars  == <<url, isScanning, scanResult, scanHistory, linkPending>>
vars == <<activeSection, emailVars, linkVars>>

(***************************************************************************)
(* Characters                                                              *)
(***************************************************************************)
UpperS == "ABCDEFGHIJKLMNOPQRSTUVWXYZ"
LowerS == "abcdefghijklmnopqrstuvwxyz"
DigitS == "0123456789"

CharsOf(str) == { SubSeq(str, k, k) : k \in 1..Len(str) }

UpperChars == CharsOf(UpperS)
LowerChars == CharsOf(LowerS)
DigitChars == CharsOf(DigitS)
\* \s of ECMAScript, restricted to the ASCII white space a text area can hold
SpaceChars == {" ", "\t", "\n", "\r", "\f"}
\* the line terminators that . does not match
LineTerms == {"\n", "\r"}
\* \w with the i flag folded away: the subject is lowered before matching
WordChars == LowerChars \cup UpperChars \cup DigitChars \cup {"_"}

ToLowerMap ==
  [c \in UpperChars |->
     LET k == CHOOSE j \in 1..26 : SubSeq(UpperS, j, j) = c
     IN  SubSeq(LowerS, k, k)]

LowerChar(c) == IF c \in UpperChars THEN ToLowerMap[c] ELSE c

RECURSIVE LowerRange(_, _, _)
\* the characters lo..hi of str lowered, by halves (the depth stays logarithmic)
LowerRange(str, lo, hi) ==
  IF lo > hi THEN ""
  ELSE IF lo = hi THEN LowerChar(SubSeq(str, lo, lo))
  ELSE LET mid == (lo + hi) \div 2
       IN  LowerRange(str, lo, mid) \o LowerRange(str, mid + 1, hi)

\* String.prototype.toLowerCase on ASCII; the canonicalisation of the i flag
toLowerCase(str) == LowerRange(str, 1, Len(str))

(***************************************************************************)
(* Regular expression syntax trees.  A pattern is a sequence of nodes.     *)
(***************************************************************************)
Lit(str)            == [t |-> "lit", s |-> str]
Cls(set)            == [t |-> "cls", set |-> set, neg |-> FALSE]
NCls(set)           == [t |-> "cls", set |-> set, neg |-> TRUE]
Alt(alts)           == [t |-> "alt", alts |-> alts]
Rep(body, lo, hi)   == [t |-> "rep", body |-> body, lo |-> lo, hi |-> hi, greedy |-> TRUE]
LazyRep(body, lo, hi) == [t |-> "rep", body |-> body, lo |-> lo, hi |-> hi, greedy |-> FALSE]
Grp(k, body)        == [t |-> "grp", k |-> k, body |-> body]
Ref(k)              == [t |-> "ref", k |-> k]
NLook(body)         == [t |-> "nlook", body |-> body]
WB                  == [t |-> "wb"]
CloseCap(k, b)      == [t |-> "close", k |-> k, b |-> b]

\* the hi of an unbounded quantifier (* and +)
Inf == -1
Opt(body)   == Rep(body, 0, 1)
Star(body)  == Rep(body, 0, Inf)
Plus(body)  == Rep(body, 1, Inf)
Dot         == NCls(LineTerms)
AltLits(strs) == Alt([k \in 1..Len(strs) |-> <<Lit(strs[k])>>])

\* the number of capture groups any pattern of the source has
NumGroups == 5
NoCaps == [k \in 1..NumGroups |-> [b |-> 0, e |-> 0]]
Fail == [ok |-> FALSE]

\* the subject of a match: txt is what is compared (lowered under the i flag)
Subject(raw, low, ci) == [raw |-> raw, txt |-> IF ci THEN low ELSE raw, len |-> Len(raw)]

IsWordAt(S, i) == i >= 1 /\ i <= S.len /\ SubSeq(S.txt, i, i) \in WordChars

InClass(c, S, i) == i <= S.len /\ ((SubSeq(S.txt, i, i) \in c.set) # c.neg)

MinOf(set) == CHOOSE m \in set : \A y \in set : m <= y

\* the length of the longest run of characters of class c from position i,
\* at most cap
ClassRun(c, S, i, cap) ==
  LET stops == { k \in 0..(cap - 1) : ~InClass(c, S, i + k) }
  IN  IF stops = {} THEN cap ELSE MinOf(stops)

RECURSIVE Run(_, _, _, _)
RECURSIVE RunAlts(_, _, _, _, _, _)
RECURSIVE RunClassRep(_, _, _, _, _)

\* The first successful way, in ECMAScript's backtracking order, to match the
\* node sequence prog at position i (1-based); Fail when there is none.
Run(prog, S, i, caps) ==
  IF prog = <<>> THEN [ok |-> TRUE, e |-> i, caps |-> caps]
  ELSE
    LET n    == Head(prog)
        rest == Tail(prog)
    IN  CASE n.t = "lit" ->
               LET L == Len(n.s)
               IN  IF i + L - 1 <= S.len /\ SubSeq(S.txt, i, i + L - 1) = n.s
                   THEN Run(rest, S, i + L, caps)
                   ELSE Fail
          [] n.t = "cls" ->
               IF InClass(n, S, i) THEN Run(rest, S, i + 1, caps) ELSE Fail
          [] n.t = "alt" -> RunAlts(n.alts, 1, rest, S, i, caps)
          [] n.t = "rep" ->
               IF Len(n.body) = 1 /\ n.body[1].t = "cls"
               THEN RunClassRep(n, rest, S, i, caps)
               ELSE IF n.hi = 0 THEN Run(rest, S, i, caps)
               ELSE
                 LET hi1  == IF n.hi = Inf THEN Inf ELSE n.hi - 1
                     lo1  == IF n.lo > 0 THEN n.lo - 1 ELSE 0
                     more == n.body \o <<[n EXCEPT !.lo = lo1, !.hi = hi1]>> \o rest
                 IN  IF n.lo > 0 THEN Run(more, S, i, caps)
                     ELSE IF n.greedy
                     THEN LET r == Run(more, S, i, caps)
                          IN  IF r.ok THEN r ELSE Run(rest, S, i, caps)
                     ELSE LET r == Run(rest, S, i, caps)
                          IN  IF r.ok THEN r ELSE Run(more, S, i, caps)
          [] n.t = "grp" ->
               Run(n.body \o <<CloseCap(n.k, i)>> \o rest, S, i, caps)
          [] n.t = "close" ->
               Run(rest, S, i, [caps EXCEPT ![n.k] = [b |-> n.b, e |-> i]])
          [] n.t = "ref" ->
               \* an undefined group matches the empty string
               IF caps[n.k].b = 0 THEN Run(rest, S, i, caps)
               ELSE
                 LET L == caps[n.k].e - caps[n.k].b
                 IN  IF i + L - 1 <= S.len
                        /\ SubSeq(S.txt, i, i + L - 1)
                             = SubSeq(S.txt, caps[n.k].b, caps[n.k].e - 1)
                     THEN Run(rest, S, i + L, caps)
                     ELSE Fail
          [] n.t = "nlook" ->
               IF Run(n.body, S, i, caps).ok THEN Fail ELSE Run(rest, S, i, caps)
          [] n.t = "wb" ->
               IF IsWordAt(S, i - 1) # IsWordAt(S, i) THEN Run(rest, S, i, caps) ELSE Fail

RunAlts(alts, k, rest, S, i, caps) ==
  IF k > Len(alts) THEN Fail
  ELSE LET r == Run(alts[k] \o rest, S, i, caps)
       IN  IF r.ok THEN r ELSE RunAlts(alts, k + 1, rest, S, i, caps)

\* A quantified character class: the lengths lo..run are tried longest first
\* (greedy) or shortest first (lazy), which is the order in which backtracking
\* into the quantifier gives characters back (or takes more).
RunClassRep(n, rest, S, i, caps) ==
  LET avail == S.len - i + 1
      cap   == IF n.hi = Inf \/ n.hi > avail THEN avail ELSE n.hi
      run   == ClassRun(n.body[1], S, i, cap)
      \* the length tried at the d-th attempt, and whether the rest matches then
      len(d) == IF n.greedy THEN run - d ELSE n.lo + d
      ok(d)  == Run(rest, S, i + len(d), caps).ok
  IN  IF run < n.lo THEN Fail
      ELSE IF ~\E d \in 0..(run - n.lo) : ok(d) THEN Fail
      ELSE Run(rest, S,
               i + len(CHOOSE d \in 0..(run - n.lo) : ok(d) /\ \A e \in 0..(d - 1) : ~ok(e)),
               caps)

\* RegExp.prototype.exec from position from: the leftmost match
MatchAt(b, r) == [ok |-> TRUE, b |-> b, e |-> r.e, caps |-> r.caps]
ExecAmong(re, S, starts) ==
  IF starts = {} THEN Fail
  ELSE MatchAt(MinOf(starts), Run(re, S, MinOf(starts), NoCaps))
Exec(re, S, from) ==
  ExecAmong(re, S, { i \in from..(S.len + 1) : Run(re, S, i, NoCaps).ok })

\* RegExp.prototype.test of a regular expression without the g flag
Test(re, S) == \E i \in 1..(S.len + 1) : Run(re, S, i, NoCaps).ok

RECURSIVE MatchAll(_, _, _)
\* the match r and the matches after it
MatchesFrom(re, S, r) ==
  IF ~r.ok THEN <<>>
  ELSE <<r>> \o MatchAll(re, S, IF r.e = r.b THEN r.e + 1 ELSE r.e)
\* every match of a regular expression with the g flag, left to right
\* (String.prototype.match and matchAll): an empty match advances by one
MatchAll(re, S, from) == MatchesFrom(re, S, Exec(re, S, from))

\* the text of a match, and of its capture group k ("" when undefined)
MatchText(S, r) == SubSeq(S.raw, r.b, r.e - 1)
GroupText(S, r, k) ==
  IF r.caps[k].b = 0 THEN "" ELSE SubSeq(S.raw, r.caps[k].b, r.caps[k].e - 1)

(***************************************************************************)
(* Helpers of the JavaScript standard library                              *)
(***************************************************************************)
\* String.prototype.includes
Includes(hay, needle) ==
  \E i \in 1..(Len(hay) + 1) :
     i + Len(needle) - 1 <= Len(hay) /\ SubSeq(hay, i, i + Len(needle) - 1) = needle

\* String.prototype.startsWith / endsWith
StartsWith(str, p) == Len(p) <= Len(str) /\ SubSeq(str, 1, Len(p)) = p
EndsWith(str, p) ==
  Len(p) <= Len(str) /\ SubSeq(str, Len(str) - Len(p) + 1, Len(str)) = p

RECURSIVE TrimLeft(_)
TrimLeft(str) ==
  IF str # "" /\ SubSeq(str, 1, 1) \in SpaceChars
  THEN TrimLeft(SubSeq(str, 2, Len(str))) ELSE str
RECURSIVE TrimRight(_)
TrimRight(str) ==
  IF str # "" /\ SubSeq(str, Len(str), Len(str)) \in SpaceChars
  THEN TrimRight(SubSeq(str, 1, Len(str) - 1)) ELSE str
\* String.prototype.trim
Trim(str) == TrimRight(TrimLeft(str))

RECURSIVE Join(_, _)
\* Array.prototype.join
Join(strs, sep) ==
  IF strs = <<>> THEN ""
  ELSE IF Len(strs) = 1 THEN strs[1]
  ELSE strs[1] \o sep \o Join(Tail(strs), sep)

RECURSIVE SumSeq(_)
SumSeq(ns) == IF ns = <<>> THEN 0 ELSE Head(ns) + SumSeq(Tail(ns))

\* Math.min left out of the return statement: the raw score is returned
NoClamp(a, b) == a
\* a score that wraps around at the limit instead of stopping at it
WrapScore(a, b) == a % (b + 1)

\* Math.min
Min(a, b) == IF a <= b THEN a ELSE b

\* slice with its end taken as the last index kept: one element more
SliceInclusive(seq, from, to) ==
  SubSeq(seq, from + 1, IF to + 1 < Len(seq) THEN to + 1 ELSE Len(seq))

\* Array.prototype.slice(from, to), 0-based, to exclusive
Slice(seq, from, to) == SubSeq(seq, from + 1, IF to < Len(seq) THEN to ELSE Len(seq))

\* a literal of a regular expression with the i flag
LitI(str) == Lit(toLowerCase(str))
AltLitsI(strs) == Alt([k \in 1..Len(strs) |-> <<LitI(strs[k])>>])

NotSpace      == NCls(SpaceChars)
NotSlashSpace == NCls({"/"} \cup SpaceChars)
\* https?:\/\/
HttpScheme == <<LitI("http"), Opt(<<LitI("s")>>), Lit("://")>>

\* (?:https?:\/\/)?(?:www\.)?([^\/\s]+)\/[^\s]*  (lines 47 and 51)
urlPattern ==
  <<Opt(HttpScheme), Opt(<<LitI("www.")>>), Grp(1, <<Plus(<<NotSlashSpace>>)>>),
    Lit("/"), Star(<<NotSpace>>)>>

(***************************************************************************)
(* EmailScanner.tsx: analyzeEmail                                          *)
(***************************************************************************)
\* the pattern table of lines 37-48: (pattern, i flag, message, score)
suspiciousPatterns == <<
  [re |-> <<Alt(<< <<LitI("urgent")>>, <<LitI("immediate")>>, <<LitI("act now")>>,
                   <<LitI("limited time")>>, <<LitI("action required")>>,
                   <<LitI("within "), Plus(<<Cls(DigitChars)>>), LitI(" hours")>> >>)>>,
   ci |-> TRUE, message |-> "Urgency tactics detected", score |-> 25],
  [re |-> <<Alt(<< <<LitI("click here")>>,
                   <<LitI("verify "), Grp(1, <<AltLitsI(<<"account", "identity">>)>>)>>,
                   <<LitI("secure "), Grp(2, <<AltLitsI(<<"account", "access">>)>>)>>,
                   <<LitI("login now")>>, <<LitI("update now")>> >>)>>,
   ci |-> TRUE, message |-> "Suspicious call-to-action phrases", score |-> 30],
  [re |-> <<Alt(<< <<LitI("congratulations")>>,
                   <<LitI("you"), Grp(1, <<AltLitsI(<<"'ve", " have">>)>>), LitI(" won")>>,
                   <<LitI("lottery")>>, <<LitI("prize")>>, <<LitI("reward")>> >>)>>,
   ci |-> TRUE, message |-> "Prize/lottery scam indicators", score |-> 20],
  [re |-> <<AltLitsI(<<"suspended", "compromised", "violation", "security alert",
                       "unusual activity">>)>>,
   ci |-> TRUE, message |-> "Account threat language", score |-> 25],
  [re |-> <<AltLitsI(<<"bitcoin", "cryptocurrency", "investment opportunity",
                       "payment required">>)>>,
   ci |-> TRUE, message |-> "Financial scam keywords", score |-> 20],
  [re |-> <<Alt(<< <<LitI("dear "),
                     Grp(1, <<Alt(<< <<LitI("customer")>>, <<LitI("user")>>,
                                     <<LitI("valued "),
                                       Grp(2, <<AltLitsI(<<"member", "client">>)>>)>> >>)>>)>>,
                   <<LitI("hello friend")>> >>)>>,
   ci |-> TRUE, message |-> "Generic/impersonal greeting", score |-> 15],
  [re |-> <<Alt(<< <<LitI("support@"), Star(<<Dot>>), LitI("fake.com")>>,
                   <<LitI("noreply@"), Star(<<Dot>>), LitI("suspect.org")>> >>)>>,
   ci |-> TRUE, message |-> "Suspicious sender email", score |-> 40],
  [re |-> <<NLook(<<LitI("scansafe.com")>>), WB, LitI("scansafe-"),
            Plus(<<Cls(LowerChars)>>), LitI(".com"), WB>>,
   ci |-> TRUE, message |-> "Spoofed domain detected", score |-> 50],
  [re |-> <<Rep(<<Rep(<<Cls(DigitChars)>>, 1, 3), Lit(".")>>, 3, 3),
            Rep(<<Cls(DigitChars)>>, 1, 3)>>,
   ci |-> FALSE, message |-> "IP address mentioned in email", score |-> 20],
  [re |-> urlPattern,
   ci |-> TRUE, message |-> "URL with potential domain mismatch", score |-> 30]
>>

\* (?:https?:\/\/)?(?:www\.)?([^\/\s]+)  (line 60)
domainPattern ==
  <<Opt(HttpScheme), Opt(<<LitI("www.")>>), Grp(1, <<Plus(<<NotSlashSpace>>)>>)>>

\* scansafe\.com|trusteddomain\.org  (line 61)
trustedPattern == <<AltLitsI(<<"scansafe.com", "trusteddomain.org">>)>>

\* \[([^\]]+)\]\((https?:\/\/[^\s]+)\)|<a\s+(?:[^>]*?\s+)?href=(["'])(.*?)\1[^>]*>(.*?)<\/a>
\* (line 71).  The backreference of the second alternative is \1, the group of
\* the first alternative, as the source has it.
hiddenLinkPattern ==
  <<Alt(<<
      <<Lit("["), Grp(1, <<Plus(<<NCls({"]"})>>)>>), Lit("]("),
        Grp(2, HttpScheme \o <<Plus(<<NotSpace>>)>>), Lit(")")>>,
      <<LitI("<a"), Plus(<<Cls(SpaceChars)>>),
        Opt(<<LazyRep(<<NCls({">"})>>, 0, Inf), Plus(<<Cls(SpaceChars)>>)>>),
        LitI("href="), Grp(3, <<Cls({"\"", "'"})>>),
        Grp(4, <<LazyRep(<<Dot>>, 0, Inf)>>), Ref(1),
        Star(<<NCls({">"})>>), Lit(">"),
        Grp(5, <<LazyRep(<<Dot>>, 0, Inf)>>), LitI("</a>")>>
  >>)>>

commonMisspellings ==
  <<"recieve", "occured", "seperate", "definately", "accomodate",
    "wich", "teh", "adress", "allready", "untill">>

\* new RegExp(`\\b(${commonMisspellings.join('|')})\\b`, 'gi')  (line 96)
grammarPattern == <<WB, Grp(1, <<AltLitsI(commonMisspellings)>>), WB>>

\* From:.*@([^\s]+).*Reply-To:.*@(?!\1)[^\s]+  (line 105)
senderReplyPattern ==
  <<LitI("From:"), Star(<<Dot>>), Lit("@"), Grp(1, <<Plus(<<NotSpace>>)>>),
    Star(<<Dot>>), LitI("Reply-To:"), Star(<<Dot>>), Lit("@"),
    NLook(<<Ref(1)>>), Plus(<<NotSpace>>)>>

\* the subject a regular expression with the i flag sees
SubjectI(str) == Subject(str, toLowerCase(str), TRUE)
\* the same text for a regular expression without the i flag
SubjectC(S) == [S EXCEPT !.txt = S.raw]

\* content.match(urlPattern) || []  (line 52): the matched substrings
MatchTexts(S, ms) == [k \in 1..Len(ms) |-> MatchText(S, ms[k])]
ExtractUrls(S) == MatchTexts(S, MatchAll(urlPattern, S, 1))

\* url.match(...)?.[1]  (line 60); "" stands for undefined
GroupOrEmpty(S, m, k) == IF m.ok THEN GroupText(S, m, k) ELSE ""
DomainIn(S) == GroupOrEmpty(S, Exec(domainPattern, S, 1), 1)
DomainOf(u) == DomainIn(SubjectI(u))

\* the filter of lines 59-62: domain && !trusted.test(domain)
IsSuspiciousDomain(domain) == domain # "" /\ ~Test(trustedPattern, SubjectI(domain))
IsSuspiciousUrl(u) == IsSuspiciousDomain(DomainOf(u))

SuspiciousDomains(urls) == SelectSeq(urls, IsSuspiciousUrl)

\* [...content.matchAll(hiddenLinkPattern)] with displayText and url of
\* lines 75-76: link[1] || link[5], link[2] || link[4]
HiddenLinkOf(S, m) ==
  [displayText |-> IF GroupText(S, m, 1) # "" THEN GroupText(S, m, 1)
                   ELSE GroupText(S, m, 5),
   url         |-> IF GroupText(S, m, 2) # "" THEN GroupText(S, m, 2)
                   ELSE GroupText(S, m, 4)]
HiddenLinksOf(S, ms) == [k \in 1..Len(ms) |-> HiddenLinkOf(S, ms[k])]
HiddenLinkMatches(S) == HiddenLinksOf(S, MatchAll(hiddenLinkPattern, S, 1))

\* the test of line 77
IsHiddenLink(link) ==
  link.url # "" /\ link.displayText # "" /\ ~Includes(link.displayText, link.url)

HiddenLinks(S) == SelectSeq(HiddenLinkMatches(S), IsHiddenLink)

\* a table whose every entry matches every text
EveryPatternMatches(k, S) == TRUE

\* pattern.test(content) for entry k of the table (line 85)
PatternMatches(k, S) ==
  Test(suspiciousPatterns[k].re, IF suspiciousPatterns[k].ci THEN S ELSE SubjectC(S))

\* the table without its last entry, the URL pattern
MatchedPatternsBeforeUrl(S) ==
  SelectSeq([k \in 1..Len(suspiciousPatterns) - 1 |-> k], LAMBDA k : PatternMatches(k, S))

\* the entries of the table that match, in table order
MatchedPatterns(S) ==
  SelectSeq([k \in 1..Len(suspiciousPatterns) |-> k], LAMBDA k : PatternMatches(k, S))

\* content.match(grammarPattern): the number of matches (0 for null)
GrammarIssues(S) == Len(MatchAll(grammarPattern, S, 1))

\* line 105
SenderReplyMismatch(S) == Test(senderReplyPattern, S)

\* the tiers with the dangerous threshold at 70 instead of 75
EmailRiskLevelEarly(score) ==
  IF score >= 70 THEN "dangerous" ELSE IF score >= 40 THEN "suspicious" ELSE "safe"

\* lines 113-130: the tier of a raw score
EmailRiskLevel(score) ==
  IF score >= 75 THEN "dangerous" ELSE IF score >= 40 THEN "suspicious" ELSE "safe"

EmailRecommendations(score) ==
  IF score >= 75 THEN
    <<"Do not click any links or download attachments",
      "Report this email as phishing to your email provider",
      "Delete this email immediately",
      "If concerned about your account, visit the official website directly">>
  ELSE IF score >= 40 THEN
    <<"Exercise extreme caution with this email",
      "Verify sender identity through official channels",
      "Hover over links to check destinations before clicking",
      "Contact the organization directly using known contact information">>
  ELSE
    <<"Email appears legitimate but remain vigilant",
      "Always verify unexpected requests for information",
      "Keep your security software updated">>

\* what each detector found in content: the inputs of the accumulation
FindingsWith(S, urls) ==
  [urls     |-> urls,
   domains  |-> SuspiciousDomains(urls),
   hidden   |-> HiddenLinks(S),
   patterns |-> MatchedPatterns(S),
   grammar  |-> GrammarIssues(S),
   sender   |-> SenderReplyMismatch(S)]
FindingsIn(S) == FindingsWith(S, ExtractUrls(S))
EmailFindings(content) == FindingsIn(SubjectI(content))

\* lines 54-109: the indicators pushed and the score added, detector by detector
EmailIndicators(f) ==
     (IF Len(f.urls) > 0
      THEN <<"Contains " \o ToString(Len(f.urls)) \o " link(s) - always verify before clicking">>
           \o (IF Len(f.domains) > 0
               THEN <<"Suspicious domains detected: " \o Join(f.domains, ", ")>>
               ELSE <<>>)
      ELSE <<>>)
  \o [k \in 1..Len(f.hidden) |->
        "Hidden link detected: \"" \o f.hidden[k].displayText
          \o "\" points to \"" \o f.hidden[k].url \o "\""]
  \o [k \in 1..Len(f.patterns) |-> suspiciousPatterns[f.patterns[k]].message]
  \o (IF f.grammar > 0
      THEN <<"Grammar/spelling errors detected (" \o ToString(f.grammar) \o " instances)">>
      ELSE <<>>)
  \o (IF f.sender THEN <<"Sender and Reply-To address mismatch">> ELSE <<>>)

EmailRawScore(f) ==
    (IF Len(f.urls) > 0
     THEN Len(f.urls) * 15 + (IF Len(f.domains) > 0 THEN Len(f.domains) * 25 ELSE 0)
     ELSE 0)
  + Len(f.hidden) * 35
  + SumSeq([k \in 1..Len(f.patterns) |-> suspiciousPatterns[f.patterns[k]].score])
  + (IF f.grammar > 0 THEN f.grammar * 10 ELSE 0)
  + (IF f.sender THEN 30 ELSE 0)

\* a score accumulator that outlives the call: it starts from the score of the
\* call before
CarriedScore ==
  IF emailCalls = <<>> THEN 0 ELSE emailCalls[Len(emailCalls)].result.score

\* the accumulators as lines 32-34 initialise them
InitialScore == 0
\* the indicators starting with an entry no detector wrote
LeftoverIndicators == <<"No threats detected">>
\* const indicators: string[] = [] (line 32)
InitialIndicators == <<>>

\* lines 111-132: the result for the findings f
EmailResult(f) ==
  LET score == InitialScore + EmailRawScore(f)
  IN  [riskLevel       |-> EmailRiskLevel(score),
       score           |-> Min(score, 100),
       indicators      |-> InitialIndicators \o EmailIndicators(f),
       recommendations |-> EmailRecommendations(score)]

analyzeEmail(content) == EmailResult(EmailFindings(content))

(***************************************************************************)
(* new URL(string) without a base, for the inputs of the link scanner:     *)
(* ASCII, no percent escapes, no IPv6 literal, numbers of an IPv4 host     *)
(* written in decimal.  It is the parser of the WHATWG URL standard cut    *)
(* down to what decides failure, protocol and hostname.                    *)
(***************************************************************************)
Null == [null |-> TRUE]

CharAt(str, i) == SubSeq(str, i, i)
Positions(str, set) == { i \in 1..Len(str) : CharAt(str, i) \in set }
\* the first position of a character of set, Len(str) + 1 when there is none
FirstPos(str, set) ==
  IF Positions(str, set) = {} THEN Len(str) + 1 ELSE MinOf(Positions(str, set))
\* the last position of a character of set, 0 when there is none
LastPos(str, set) ==
  IF Positions(str, set) = {} THEN 0
  ELSE CHOOSE m \in Positions(str, set) : \A y \in Positions(str, set) : y <= m

\* String.prototype.split with a one-character separator
Split(str, sep) ==
  LET at    == Positions(str, {sep})
      kth(k) == IF k = 0 THEN 0
                ELSE IF k > Cardinality(at) THEN Len(str) + 1
                ELSE CHOOSE q \in at : Cardinality({r \in at : r < q}) = k - 1
  IN  [k \in 1..(Cardinality(at) + 1) |-> SubSeq(str, kth(k - 1) + 1, kth(k) - 1)]

\* String.prototype.indexOf, 1-based, 0 when pat does not occur
IndexOf(str, pat) ==
  LET at == { i \in 1..(Len(str) - Len(pat) + 1) : SubSeq(str, i, i + Len(pat) - 1) = pat }
  IN  IF at = {} THEN 0 ELSE MinOf(at)

\* String.prototype.replace with a string pattern: the first occurrence only
ReplaceFirst(str, pat, rep) ==
  LET i == IndexOf(str, pat)
  IN  IF i = 0 THEN str
      ELSE SubSeq(str, 1, i - 1) \o rep \o SubSeq(str, i + Len(pat), Len(str))

AllIn(str, set) == \A i \in 1..Len(str) : CharAt(str, i) \in set

RECURSIVE ParseDec(_)
\* the value of a string of decimal digits
ParseDec(str) ==
  IF str = "" THEN 0
  ELSE 10 * ParseDec(SubSeq(str, 1, Len(str) - 1))
       + ((CHOOSE k \in 1..10 : CharAt(DigitS, k) = CharAt(str, Len(str))) - 1)

SchemeChars == LowerChars \cup UpperChars \cup DigitChars \cup {"+", "-", "."}
\* the forbidden domain code points among the printable ASCII characters
ForbiddenHostChars ==
  SpaceChars \cup {"\"", "#", "/", ":", "<", ">", "?", "@", "[", "\\", "]", "^", "|", "%"}

\* the IPv4 number parser, decimal numbers only
IsNum(q) == q # "" /\ AllIn(q, DigitChars) /\ Len(q) <= 9

\* the IPv4 parser drops one trailing empty part
DropLastEmpty(parts) ==
  IF Len(parts) > 1 /\ parts[Len(parts)] = ""
  THEN SubSeq(parts, 1, Len(parts) - 1) ELSE parts

EndsInNumber(parts) ==
  parts[Len(parts)] # "" /\ AllIn(parts[Len(parts)], DigitChars)

IPv4Valid(parts) ==
  LET n == Len(parts)
  IN  /\ n <= 4
      /\ \A k \in 1..n : IsNum(parts[k])
      /\ \A k \in 1..(n - 1) : ParseDec(parts[k]) <= 255
      /\ \/ n = 4 /\ ParseDec(parts[n]) < 256
         \/ n = 3 /\ ParseDec(parts[n]) < 65536
         \/ n = 2 /\ ParseDec(parts[n]) < 16777216
         \/ n = 1

\* byte k of the address, most significant first; the last part fills the
\* bytes the parts before it leave
IPv4Byte(parts, k) ==
  IF k < Len(parts) THEN ParseDec(parts[k])
  ELSE IF k = 4 THEN ParseDec(parts[Len(parts)]) % 256
  ELSE IF k = 3 THEN (ParseDec(parts[Len(parts)]) \div 256) % 256
  ELSE IF k = 2 THEN (ParseDec(parts[Len(parts)]) \div 65536) % 256
  ELSE (ParseDec(parts[Len(parts)]) \div 16777216) % 256

IPv4Text(parts) ==
  ToString(IPv4Byte(parts, 1)) \o "." \o ToString(IPv4Byte(parts, 2)) \o "."
    \o ToString(IPv4Byte(parts, 3)) \o "." \o ToString(IPv4Byte(parts, 4))

ParseHostParts(lower, parts) ==
  IF EndsInNumber(parts)
  THEN IF IPv4Valid(parts) THEN [ok |-> TRUE, hostname |-> IPv4Text(parts)]
       ELSE [ok |-> FALSE]
  ELSE [ok |-> TRUE, hostname |-> lower]

ParseHostLower(lower) ==
  IF lower = "" \/ Positions(lower, ForbiddenHostChars) # {} THEN [ok |-> FALSE]
  ELSE ParseHostParts(lower, DropLastEmpty(Split(lower, ".")))

\* the host parser on a domain or an IPv4 address
ParseHost(host) == ParseHostLower(toLowerCase(host))

PortOk(port) == AllIn(port, DigitChars) /\ Len(port) <= 9 /\ ParseDec(port) <= 65535

WithProtocol(parsed, protocol) ==
  IF parsed.ok THEN [ok |-> TRUE, protocol |-> protocol, hostname |-> parsed.hostname]
  ELSE [ok |-> FALSE]

\* host state and port state; the host of a scheme that is not special is
\* opaque and kept as written
ParseHostAndPort(scheme, host, port) ==
  IF ~PortOk(port) THEN [ok |-> FALSE]
  ELSE IF scheme \in {"http", "https"} THEN WithProtocol(ParseHost(host), scheme \o ":")
  ELSE IF Positions(host, ForbiddenHostChars) = {}
       THEN [ok |-> TRUE, protocol |-> scheme \o ":", hostname |-> host]
       ELSE [ok |-> FALSE]

ParseHostPort(scheme, hostport) ==
  ParseHostAndPort(scheme,
                   SubSeq(hostport, 1, FirstPos(hostport, {":"}) - 1),
                   SubSeq(hostport, FirstPos(hostport, {":"}) + 1, Len(hostport)))

\* authority state: the credentials end at the last @
ParseAuthority(scheme, authority) ==
  ParseHostPort(scheme, SubSeq(authority, LastPos(authority, {"@"}) + 1, Len(authority)))

\* the authority ends at the first / ? # (and \ when the scheme is special)
ParseFromAuthority(scheme, after) ==
  ParseAuthority(scheme,
                 SubSeq(after, 1,
                        FirstPos(after, IF scheme \in {"http", "https"}
                                        THEN {"/", "\\", "?", "#"}
                                        ELSE {"/", "?", "#"}) - 1))

\* special authority (ignore) slashes state: any run of / and \ is skipped
ParseAfterScheme(scheme, rest) ==
  IF scheme \in {"http", "https"}
  THEN ParseFromAuthority(scheme,
         SubSeq(rest,
                ClassRun(Cls({"/", "\\"}), Subject(rest, rest, FALSE), 1, Len(rest)) + 1,
                Len(rest)))
  ELSE IF StartsWith(rest, "//")
  THEN ParseFromAuthority(scheme, SubSeq(rest, 3, Len(rest)))
  ELSE [ok |-> TRUE, protocol |-> scheme \o ":", hostname |-> ""]

\* scheme start state and scheme state
ParseScheme(str, colon) ==
  IF /\ colon <= Len(str) /\ colon > 1
     /\ CharAt(str, 1) \in (LowerChars \cup UpperChars)
     /\ AllIn(SubSeq(str, 1, colon - 1), SchemeChars)
  THEN ParseAfterScheme(toLowerCase(SubSeq(str, 1, colon - 1)),
                        SubSeq(str, colon + 1, Len(str)))
  ELSE [ok |-> FALSE]

ParseTrimmed(str) == ParseScheme(str, FirstPos(str, {":"}))

ParseURL(input) == ParseTrimmed(Trim(input))

(***************************************************************************)
(* LinkScanner (src/unnamed/part_001): the analyzers                       *)
(*                                                                         *)
(* Time is counted in ticks, DayTicks to a day.  A draw rnd holds what one *)
(* call takes from its environment: newly (Math.random() > 0.7 of line     *)
(* 70), daysBack (Math.floor(Math.random() * 30) of line 71), tod (the     *)
(* time of day of the Date.now() of line 71), tick (how far the clock has  *)
(* moved on at the Date.now() of line 72) and redirects (Math.random() >   *)
(* 0.7 of line 223).                                                       *)
(***************************************************************************)
DayTicks   == 3
SessionDay == 100
\* the 30 of Math.floor(Math.random() * 30) at line 71
DrawDays == 30
\* 30 * 24 * 60 * 60 * 1000 of line 72, in days
NewDomainDays == 30

suspiciousTLDs == <<".tk", ".ml", ".ga", ".cf", ".gq", ".xyz">>

\* toISOString().split('T')[0]: the UTC day a time falls on
IsoDate(t) == [day |-> t \div DayTicks]
\* the last tick of that day instead of its midnight
DateTimeEndOfDay(d) == d.day * DayTicks + DayTicks - 1

\* new Date(creationDate).getTime(): midnight UTC of that day
DateTime(d) == d.day * DayTicks

\* analyzeDomain with the top-level domain check behind a random draw as well
analyzeDomainDrawnTld(domain, rnd) ==
  [isSuspicious |-> FALSE,
   indicators   |->
     IF rnd.redirects /\ \E k \in 1..Len(suspiciousTLDs) : EndsWith(domain, suspiciousTLDs[k])
     THEN <<[type |-> "domain", message |-> "Suspicious top-level domain",
             severity |-> "high"]>>
     ELSE <<>>,
   registrar    |-> "Unknown",
   creationDate |-> Null]

analyzeDomain(domain, rnd) ==
  LET tldHit == \E k \in 1..Len(suspiciousTLDs) : EndsWith(domain, suspiciousTLDs[k])
      labels == Split(domain, ".")
      now1   == SessionDay * DayTicks + rnd.tod
      now2   == now1 + rnd.tick
      creationDate == IF rnd.newly THEN IsoDate(now1 - rnd.daysBack * DayTicks) ELSE Null
      isNew  == rnd.newly /\ DateTime(creationDate) > now2 - NewDomainDays * DayTicks
  IN  [isSuspicious |-> tldHit,
       indicators   |->
            (IF tldHit
             THEN <<[type |-> "domain",
                     message |-> "Suspicious top-level domain (" \o labels[Len(labels)] \o ")",
                     severity |-> "high"]>>
             ELSE <<>>)
         \o (IF isNew
             THEN <<[type |-> "domain",
                     message |-> "Newly registered domain (less than 30 days old)",
                     severity |-> "medium"]>>
             ELSE <<>>),
       registrar    |-> "Unknown",
       creationDate |-> creationDate]

\* \b(?:\d{1,3}\.){3}\d{1,3}\b  (line 95)
ipPattern ==
  <<WB, Rep(<<Rep(<<Cls(DigitChars)>>, 1, 3), Lit(".")>>, 3, 3),
    Rep(<<Cls(DigitChars)>>, 1, 3), WB>>

analyzeUrlStructure(u) ==
  LET subdomainCount == Len(Split(u, ".")) - 2
  IN     (IF Includes(u, "@")
          THEN <<[type |-> "url",
                  message |-> "URL contains @ symbol (possible credential embedding)",
                  severity |-> "high"]>>
          ELSE <<>>)
      \o (IF Test(ipPattern, Subject(u, u, FALSE))
          THEN <<[type |-> "url",
                  message |-> "URL uses direct IP address instead of domain name",
                  severity |-> "medium"]>>
          ELSE <<>>)
      \o (IF subdomainCount > 3
          THEN <<[type |-> "url",
                  message |-> "Excessive subdomains (" \o ToString(subdomainCount) \o ")",
                  severity |-> "medium"]>>
          ELSE <<>>)

\* lines 119-124; src is pattern.toString() without its leading slash
suspiciousKeywords == <<
  [re |-> <<AltLitsI(<<"login", "signin", "auth">>)>>,
   src |-> "login|signin|auth/i", severity |-> "medium"],
  [re |-> <<AltLitsI(<<"bank", "paypal", "amazon", "ebay">>)>>,
   src |-> "bank|paypal|amazon|ebay/i", severity |-> "high"],
  [re |-> <<AltLitsI(<<"update", "verify", "security">>)>>,
   src |-> "update|verify|security/i", severity |-> "medium"],
  [re |-> <<AltLitsI(<<"account", "profile", "settings">>)>>,
   src |-> "account|profile|settings/i", severity |-> "low"]
>>

\* the keyword table searched up to its first hit only
analyzeContentPatternsFirstHit(u) ==
  LET S    == SubjectI(u)
      hits == SelectSeq([k \in 1..Len(suspiciousKeywords) |-> k],
                        LAMBDA k : Test(suspiciousKeywords[k].re, S))
  IN  [k \in 1..(IF hits = <<>> THEN 0 ELSE 1) |->
         [type |-> "content",
          message |-> "Suspicious keyword in URL: " \o suspiciousKeywords[hits[k]].src,
          severity |-> suspiciousKeywords[hits[k]].severity]]

analyzeContentPatterns(u) ==
  LET S    == SubjectI(u)
      hits == SelectSeq([k \in 1..Len(suspiciousKeywords) |-> k],
                        LAMBDA k : Test(suspiciousKeywords[k].re, S))
  IN  [k \in 1..Len(hits) |->
         [type |-> "content",
          message |-> "Suspicious keyword in URL: " \o suspiciousKeywords[hits[k]].src,
          severity |-> suspiciousKeywords[hits[k]].severity]]

\* generateRecommendations with the baseline left off the safe tier
generateRecommendationsBare(riskLevel) ==
  IF riskLevel = "dangerous" THEN
    <<"Do not visit this link",
      "Report this link to your security team",
      "Block this domain in your security software",
      "Always verify links before clicking",
      "Use a password manager to avoid phishing sites">>
  ELSE IF riskLevel = "suspicious" THEN
    <<"Exercise extreme caution with this link",
      "Verify the destination URL carefully",
      "Consider using a sandbox environment",
      "Always verify links before clicking",
      "Use a password manager to avoid phishing sites">>
  ELSE <<"Link appears safe but remain vigilant">>

generateRecommendations(riskLevel) ==
  LET baseRecommendations ==
        <<"Always verify links before clicking",
          "Use a password manager to avoid phishing sites">>
  IN  IF riskLevel = "dangerous" THEN
        <<"Do not visit this link",
          "Report this link to your security team",
          "Block this domain in your security software">> \o baseRecommendations
      ELSE IF riskLevel = "suspicious" THEN
        <<"Exercise extreme caution with this link",
          "Verify the destination URL carefully",
          "Consider using a sandbox environment">> \o baseRecommendations
      ELSE <<"Link appears safe but remain vigilant">> \o baseRecommendations

\* every indicator weighed as a high one
FlatSeverityScore(severity) == 30

\* the weight of an indicator in the reduce of lines 186-189
SeverityScore(severity) ==
  IF severity = "high" THEN 30 ELSE IF severity = "medium" THEN 20 ELSE 10

\* the tiers with strict comparisons: 60 is not dangerous, 30 not suspicious
LinkRiskLevelAbove(score) ==
  IF score > 60 THEN "dangerous" ELSE IF score > 30 THEN "suspicious" ELSE "safe"

\* lines 202-208
LinkRiskLevel(score) ==
  IF score >= 60 THEN "dangerous" ELSE IF score >= 30 THEN "suspicious" ELSE "safe"

\* a catch block that gives the benefit of the doubt
InvalidUrlAsSafe(inputUrl) ==
  [url |-> inputUrl, riskLevel |-> "safe", score |-> 0,
   indicators |-> <<>>,
   recommendations |-> <<"Please enter a valid URL">>,
   technicalDetails |->
     [domain |-> "Invalid", registrar |-> "Unknown", creationDate |-> Null,
      isHttps |-> FALSE, hasRedirects |-> FALSE, finalUrl |-> inputUrl,
      reputation |-> "Unknown", blacklistStatus |-> <<>>]]

\* the result of the catch block, lines 230-250
InvalidUrlResult(inputUrl) ==
  [url |-> inputUrl, riskLevel |-> "dangerous", score |-> 100,
   indicators |-> <<[type |-> "url", message |-> "Invalid URL format", severity |-> "high"]>>,
   recommendations |-> <<"Please enter a valid URL">>,
   technicalDetails |->
     [domain |-> "Invalid", registrar |-> "Unknown", creationDate |-> Null,
      isHttps |-> FALSE, hasRedirects |-> FALSE, finalUrl |-> inputUrl,
      reputation |-> "Unknown", blacklistStatus |-> <<>>]]

\* the reputation with the boundaries on the side of the lower tier
ReputationAbove(score) ==
  IF score <= 30 THEN "Good" ELSE IF score <= 60 THEN "Unknown" ELSE "Poor"

\* line 225
Reputation(score) ==
  IF score < 30 THEN "Good" ELSE IF score < 60 THEN "Unknown" ELSE "Poor"

\* the blacklist reported from 60 on, where the dangerous tier starts
BlacklistFromSixty(score) ==
  IF score >= 60 THEN <<"PhishTank", "Google Safe Browsing">> ELSE <<>>

\* line 226
BlacklistStatus(score) ==
  IF score > 60 THEN <<"PhishTank", "Google Safe Browsing">> ELSE <<>>

\* lines 212-228: the result, from all the indicators and the score
LinkResult(inputUrl, rnd, isHttps, domain, domainAnalysis, allIndicators, score) ==
  [url |-> inputUrl, riskLevel |-> LinkRiskLevel(score), score |-> Min(score, 100),
   indicators |-> allIndicators,
   recommendations |-> generateRecommendations(LinkRiskLevel(score)),
   technicalDetails |->
     [domain |-> domain, registrar |-> domainAnalysis.registrar,
      creationDate |-> domainAnalysis.creationDate,
      isHttps |-> isHttps, hasRedirects |-> rnd.redirects,
      finalUrl |-> inputUrl,
      reputation |-> Reputation(score),
      blacklistStatus |-> BlacklistStatus(score)]]

\* lines 186-199: the score of the indicators found, then the HTTPS check
ScoreIndicators(inputUrl, rnd, isHttps, domain, domainAnalysis, found) ==
  LinkResult(inputUrl, rnd, isHttps, domain, domainAnalysis,
             IF isHttps THEN found
             ELSE found \o <<[type |-> "security",
                              message |-> "Connection is not secure (HTTP instead of HTTPS)",
                              severity |-> "high"]>>,
             SumSeq([k \in 1..Len(found) |-> SeverityScore(found[k].severity)])
               + (IF isHttps THEN 0 ELSE 30))

\* the indicators with those of the content keywords put first
CollectIndicatorsContentFirst(inputUrl, rnd, isHttps, domain, domainAnalysis) ==
  ScoreIndicators(inputUrl, rnd, isHttps, domain, domainAnalysis,
                  analyzeContentPatterns(inputUrl) \o domainAnalysis.indicators
                    \o analyzeUrlStructure(inputUrl))

\* lines 177-183: the three analyses and the indicators in their order
CollectIndicators(inputUrl, rnd, isHttps, domain, domainAnalysis) ==
  ScoreIndicators(inputUrl, rnd, isHttps, domain, domainAnalysis,
                  domainAnalysis.indicators \o analyzeUrlStructure(inputUrl)
                    \o analyzeContentPatterns(inputUrl))

AnalyzeParsed(inputUrl, rnd, isHttps, domain) ==
  CollectIndicators(inputUrl, rnd, isHttps, domain, analyzeDomain(domain, rnd))

\* the try block when new URL has returned urlObj, the catch block when it
\* has thrown
AnalyzeUrlObj(inputUrl, rnd, urlObj) ==
  IF ~urlObj.ok THEN InvalidUrlResult(inputUrl)
  ELSE AnalyzeParsed(inputUrl, rnd, urlObj.protocol = "https:",
                     ReplaceFirst(urlObj.hostname, "www.", ""))

\* the argument of new URL at line 173
NormalizeUrl(inputUrl) ==
  IF StartsWith(inputUrl, "http") THEN inputUrl ELSE "https://" \o inputUrl

analyzeLink(inputUrl, rnd) == AnalyzeUrlObj(inputUrl, rnd, ParseURL(NormalizeUrl(inputUrl)))

(***************************************************************************)
(* The inputs                                                              *)
(***************************************************************************)
\* a text typed into the email text area is made of at most MaxPhrases of
\* these phrases, or is one of ExampleTexts
Phrases ==
  {"urgent ", "click here ", "e.tk/x ", "scansafe.com/a ", "[hi](http://e.tk) ",
   "<a href=\"e.tk\">t</a> ", "teh "}
ExampleTexts ==
  {"URGENT: verify your account now or it will be suspended!",
   "Meeting moved to 3pm tomorrow, see you then.",
   "From: a@x.com Reply-To: b@y.com",
   "you have won bitcoin, dear user 1.2.3.4",
   "   "}
MaxPhrases == 2

RECURSIVE PhraseTexts(_)
PhraseTexts(n) ==
  IF n = 0 THEN {""}
  ELSE PhraseTexts(n - 1) \cup { t \o f : t \in PhraseTexts(n - 1), f \in Phrases }
\* the texts another phrase can be appended to
Appendable == PhraseTexts(MaxPhrases - 1)

\* the URLs typed into the URL field
LinkUrls ==
  {"example.com", "https://www.example.com/", "http://example.com",
   "http://192.168.1.1/paypal-login", "not a url", "httpfoo.com",
   "user@evil.tk", "evil.xyz/login", "www.a.b.c.d.e.com",
   "https://secure.bank.com/account/update", "http://x.tk@a.ml/verify-account",
   "example.com/a.b.c.d.e", "evil.www.com", " "}
\* at most MaxLinkScans scans are made of the URL of a session
MaxLinkScans == 2

\* what one call of analyzeLink can draw: nothing but redirects is drawn when
\* Math.random() > 0.7 fails at line 70
Draws ==
       [newly : {FALSE}, daysBack : {0}, tod : {0}, tick : {0}, redirects : BOOLEAN]
  \cup [newly : {TRUE}, daysBack : {0, DrawDays - 1}, tod : {0, DayTicks - 1},
        tick : {0, 1}, redirects : BOOLEAN]

Sections == {"home", "email", "link", "learn"}

\* the useState initial values of EmailScanner (lines 13-15)
EmailMounted ==
  /\ emailContent = ""
  /\ emailIsScanning = FALSE
  /\ emailScanResult = Null
  /\ emailPending = Null
  /\ emailCalls = <<>>

\* the useState initial values of LinkScanner (part_001 lines 28-32)
LinkMounted ==
  /\ url = ""
  /\ isScanning = FALSE
  /\ scanResult = Null
  /\ scanHistory = <<>>
  /\ linkPending = Null

Init ==
  /\ activeSection = "home"
  /\ EmailMounted
  /\ LinkMounted

\* the call of analyzeEmail on content, which has found f
CallOf(content, f) == [content |-> content, findings |-> f, result |-> EmailResult(f)]
\* the last call recorded, if any
LastCall(calls) == IF calls = <<>> THEN <<>> ELSE <<calls[Len(calls)]>>

\* setActiveSection with the history kept in a place that outlives LinkScanner
SetActiveSectionKeepHistory(section) ==
  /\ section # activeSection
  /\ linkPending = Null
  /\ activeSection' = section
  /\ emailContent' = ""
  /\ emailIsScanning' = FALSE
  /\ emailScanResult' = Null
  /\ emailPending' = Null
  /\ emailCalls' = <<>>
  /\ url' = ""
  /\ isScanning' = FALSE
  /\ scanResult' = Null
  /\ scanHistory' = scanHistory
  /\ linkPending' = Null

\* setActiveSection (part_002 lines 923-937): renderContent mounts the
\* component of the new section, and the state of the one it replaces is gone
SetActiveSection(section) ==
  /\ section # activeSection
  /\ linkPending = Null
  /\ activeSection' = section
  /\ emailContent' = ""
  /\ emailIsScanning' = FALSE
  /\ emailScanResult' = Null
  /\ emailPending' = Null
  /\ emailCalls' = <<>>
  /\ url' = ""
  /\ isScanning' = FALSE
  /\ scanResult' = Null
  /\ scanHistory' = <<>>
  /\ linkPending' = Null

\* onChange of the text area (EmailScanner.tsx line 215)
SetEmailContent(text) ==
  /\ activeSection = "email"
  /\ emailContent' = text
  /\ UNCHANGED <<activeSection, emailIsScanning, emailScanResult, emailPending,
                 emailCalls, linkVars>>

\* the scan button left enabled during a scan
EmailHandleScanAnyTime ==
  /\ activeSection = "email"
  /\ Trim(emailContent) # ""
  /\ emailIsScanning' = TRUE
  /\ emailScanResult' = Null
  /\ emailPending' = [content |-> emailContent]
  /\ UNCHANGED <<activeSection, emailContent, emailCalls, linkVars>>

\* handleScan up to its await (EmailScanner.tsx lines 135-142), run by the
\* scan button, which is disabled while the text is blank or a scan is on
\* (line 224)
EmailHandleScan ==
  /\ activeSection = "email"
  /\ ~(Trim(emailContent) = "" \/ emailIsScanning)
  /\ IF Trim(emailContent) = ""
     THEN UNCHANGED <<emailIsScanning, emailScanResult, emailPending>>
     ELSE /\ emailIsScanning' = TRUE
          /\ emailScanResult' = Null
          /\ emailPending' = [content |-> emailContent]
  /\ UNCHANGED <<activeSection, emailContent, emailCalls, linkVars>>

\* handleScan after its await, analyzing the text the box holds by then
EmailScanCompleteCurrent ==
  /\ activeSection = "email"
  /\ emailPending # Null
  /\ emailCalls' = Append(LastCall(emailCalls),
                          CallOf(emailContent, EmailFindings(emailContent)))
  /\ emailScanResult' = emailCalls'[Len(emailCalls')].result
  /\ emailIsScanning' = FALSE
  /\ emailPending' = Null
  /\ UNCHANGED <<activeSection, emailContent, linkVars>>

\* handleScan after its await (lines 144-146): the timer has fired; the
\* emailContent it reads is the one of the render that ran handleScan
EmailScanComplete ==
  /\ activeSection = "email"
  /\ emailPending # Null
  /\ emailCalls' = Append(LastCall(emailCalls),
                          CallOf(emailPending.content, EmailFindings(emailPending.content)))
  /\ emailScanResult' = emailCalls'[Len(emailCalls')].result
  /\ emailIsScanning' = FALSE
  /\ emailPending' = Null
  /\ UNCHANGED <<activeSection, emailContent, linkVars>>

\* onChange of the URL field (part_001 line 343)
SetUrl(u) ==
  /\ activeSection = "link"
  /\ linkPending = Null
  /\ url' = u
  /\ UNCHANGED <<activeSection, isScanning, scanResult, scanHistory, linkPending, emailVars>>

\* handleScan without the test of line 255: a blank URL is scanned as well
LinkHandleScanBlank(rnd) ==
  /\ activeSection = "link"
  /\ linkPending = Null
  /\ isScanning' = TRUE
  /\ scanResult' = Null
  /\ linkPending' = [result |-> analyzeLink(url, rnd)]
  /\ UNCHANGED <<activeSection, url, scanHistory, emailVars>>

\* handleScan up to its await (part_001 lines 254-261), run by the scan button
\* (line 350) or by Enter in the URL field (line 346).  analyzeLink has no
\* await of its own: it has run, draws included, when handleScan yields, and
\* handleScan resumes in a microtask, before the next event is handled.
LinkHandleScan(rnd) ==
  /\ activeSection = "link"
  /\ linkPending = Null
  /\ IF Trim(url) = ""
     THEN UNCHANGED <<isScanning, scanResult, linkPending>>
     ELSE /\ isScanning' = TRUE
          /\ scanResult' = Null
          /\ linkPending' = [result |-> analyzeLink(url, rnd)]
  /\ UNCHANGED <<activeSection, url, scanHistory, emailVars>>

\* handleScan after its await, keeping the invalid-URL result out of the history
LinkScanCompleteValidOnly ==
  /\ activeSection = "link"
  /\ linkPending # Null
  /\ scanResult' = linkPending.result
  /\ scanHistory' = IF linkPending.result.technicalDetails.domain = "Invalid"
                    THEN scanHistory
                    ELSE <<linkPending.result>> \o Slice(scanHistory, 0, 4)
  /\ isScanning' = FALSE
  /\ linkPending' = Null
  /\ UNCHANGED <<activeSection, url, emailVars>>

\* handleScan after its await (lines 262-267)
LinkScanComplete ==
  /\ activeSection = "link"
  /\ linkPending # Null
  /\ scanResult' = linkPending.result
  /\ scanHistory' = <<linkPending.result>> \o Slice(scanHistory, 0, 4)
  /\ isScanning' = FALSE
  /\ linkPending' = Null
  /\ UNCHANGED <<activeSection, url, emailVars>>

\* a click on entry k that records the entry as a new scan
HistoryClickRecords(k) ==
  /\ activeSection = "link"
  /\ linkPending = Null
  /\ k \in 1..Len(scanHistory)
  /\ url' = scanHistory[k].url
  /\ scanResult' = scanHistory[k]
  /\ scanHistory' = <<scanHistory[k]>> \o Slice(scanHistory, 0, 4)
  /\ UNCHANGED <<activeSection, isScanning, linkPending, emailVars>>

\* a click on entry k handled while a scan is in flight as well
HistoryClickAnyTime(k) ==
  /\ activeSection = "link"
  /\ k \in 1..Len(scanHistory)
  /\ url' = scanHistory[k].url
  /\ scanResult' = scanHistory[k]
  /\ UNCHANGED <<activeSection, isScanning, scanHistory, linkPending, emailVars>>

\* onClick of entry k of the Recent Scans list (part_001 lines 642-645)
HistoryClick(k) ==
  /\ activeSection = "link"
  /\ linkPending = Null
  /\ k \in 1..Len(scanHistory)
  /\ url' = scanHistory[k].url
  /\ scanResult' = scanHistory[k]
  /\ UNCHANGED <<activeSection, isScanning, scanHistory, linkPending, emailVars>>

\* the entries the Recent Scans list can show: 1 + the 4 of slice(0, 4)
MaxHistory == 5

Next ==
  \/ \E section \in Sections : SetActiveSection(section)
  \/ \E f \in Phrases : emailContent \in Appendable /\ SetEmailContent(emailContent \o f)
  \/ \E t \in ExampleTexts : emailContent = "" /\ SetEmailContent(t)
  \/ EmailHandleScan
  \/ EmailScanComplete
  \/ \E u \in LinkUrls : scanHistory = <<>> /\ SetUrl(u)
  \/ \E rnd \in Draws : Len(scanHistory) < MaxLinkScans /\ LinkHandleScan(rnd)
  \/ LinkScanComplete
  \/ \E k \in 1..MaxHistory : HistoryClick(k)

Spec == Init /\ [][Next]_vars


(***************************************************************************)
(* The link scanner over a session long enough to fill the history: any    *)
(* number of scans of the URLs of HistoryUrls, new URLs typed and history  *)
(* entries clicked between them, with the draws of HistoryDraws.           *)
(***************************************************************************)
HistoryUrls == {"example.com", "http://example.com", "not a url"}
HistoryDraws ==
  [newly : {FALSE}, daysBack : {0}, tod : {0}, tick : {0}, redirects : BOOLEAN]
HistoryNext ==
  \/ \E section \in {"home", "link"} : SetActiveSection(section)
  \/ \E u \in HistoryUrls : SetUrl(u)
  \/ \E rnd \in HistoryDraws : LinkHandleScan(rnd)
  \/ LinkScanComplete
  \/ \E k \in 1..MaxHistory : HistoryClick(k)

HistorySpec == Init /\ [][HistoryNext]_vars

\* The inputs of the runs in which scans are followed to their end: the text
\* box and the URL field take any of these values at any time, a scan in
\* flight or not.
LiveTexts == {"urgent ", "click here teh ", "   "}
LiveUrls == {"example.com", "http://example.com", "not a url", " "}

LiveNext ==
  \/ \E section \in Sections : SetActiveSection(section)
  \/ \E t \in LiveTexts : SetEmailContent(t)
  \/ EmailHandleScan
  \/ EmailScanComplete
  \/ \E u \in LiveUrls : SetUrl(u)
  \/ \E rnd \in HistoryDraws : Len(scanHistory) < MaxLinkScans /\ LinkHandleScan(rnd)
  \/ LinkScanComplete
  \/ \E k \in 1..MaxHistory : HistoryClick(k)

\* an email scan waits for its timer: EmailScanComplete is enabled
EmailScanWaiting == activeSection = "email" /\ emailPending # Null

\* The timer of the email handleScan (setTimeout, line 142) fires and the
\* continuation of the link handleScan (a microtask) runs: neither waits for
\* ever once it is enabled.  What the user does is under no fairness.  The
\* second conjunct is WF_vars(EmailScanComplete) written out, with
\* EmailScanWaiting for ENABLED <<EmailScanComplete>>_vars (a completing scan
\* always changes emailPending).
LiveSpec ==
  /\ Init /\ [][LiveNext]_vars
  /\ ([]<>~EmailScanWaiting) \/ ([]<><<EmailScanComplete>>_vars)
  /\ WF_vars(LinkScanComplete)

(***************************************************************************)
(* The earlier LinkScanner (src/unnamed/part_002 lines 606-914): string    *)
(* indicators, details in place of technicalDetails, no history, and a     *)
(* handleScan that waits 1500 ms before it calls analyzeLink.  It holds    *)
(* url, isScanning and scanResult as the later one does; the URL it is to  *)
(* analyze waits in linkPending.                                           *)
(***************************************************************************)
\* lines 636-640
EarlierSuspiciousDomains ==
  {"bit.ly", "tinyurl.com", "goo.gl", "t.co", "ow.ly", "is.gd",
   "paypal-security.com", "amazon-update.com", "microsoft-support.net",
   "google-verify.com", "facebook-security.net"}

\* the first four entries of the table of lines 642-648
EarlierPatterns == <<
  [re |-> <<Plus(<<Cls(DigitChars)>>), Lit("."), Plus(<<Cls(DigitChars)>>), Lit("."),
            Plus(<<Cls(DigitChars)>>), Lit("."), Plus(<<Cls(DigitChars)>>)>>,
   ci |-> FALSE, message |-> "Direct IP address used"],
  [re |-> <<Cls({".", "-"}),
            AltLitsI(<<"paypal", "amazon", "microsoft", "google", "facebook", "apple">>),
            Cls({".", "-"})>>,
   ci |-> TRUE, message |-> "Suspicious brand impersonation"],
  [re |-> <<AltLitsI(<<"urgent", "verify", "suspend", "update", "secure">>)>>,
   ci |-> TRUE, message |-> "Suspicious URL keywords"],
  [re |-> <<Rep(<<Cls(DigitChars)>>, 4, Inf)>>,
   ci |-> FALSE, message |-> "Unusual number sequence in URL"]
>>

\* the fifth entry, /[a-z]\.tk$|\.ml$|\.ga$|\.cf$/i: $ is the end of the input
FreeDomainExtension(u) ==
  \/ /\ EndsWith(toLowerCase(u), ".tk")
     /\ Len(u) >= 4
     /\ SubSeq(toLowerCase(u), Len(u) - 3, Len(u) - 3) \in LowerChars
  \/ EndsWith(toLowerCase(u), ".ml")
  \/ EndsWith(toLowerCase(u), ".ga")
  \/ EndsWith(toLowerCase(u), ".cf")

EarlierMessages ==
  [k \in 1..5 |-> IF k = 5 THEN "Suspicious free domain extension"
                  ELSE EarlierPatterns[k].message]

\* pattern.test(inputUrl) for entry k (line 665)
EarlierPatternMatches(k, u) ==
  IF k = 5 THEN FreeDomainExtension(u)
  ELSE Test(EarlierPatterns[k].re, Subject(u, toLowerCase(u), EarlierPatterns[k].ci))

\* the characters of the host names that new URL returns here: all ASCII
AsciiChars ==
  UpperChars \cup LowerChars \cup DigitChars \cup CharsOf(".-_~!$&()*+,;=:%[]")

\* homographChars.test(domain) (lines 679-680): the class holds Cyrillic and
\* Greek letters and no ASCII character
EarlierHomograph(domain) ==
  \E i \in 1..Len(domain) : SubSeq(domain, i, i) \notin AsciiChars

\* what the checks of lines 650-683 find
EarlierFindings(inputUrl, urlObj) ==
  [shortener  |-> urlObj.hostname \in EarlierSuspiciousDomains,
   isHttps    |-> urlObj.protocol = "https:",
   patterns   |-> SelectSeq(<<1, 2, 3, 4, 5>>, LAMBDA k : EarlierPatternMatches(k, inputUrl)),
   subdomains |-> Len(Split(urlObj.hostname, ".")) > 3,
   homograph  |-> EarlierHomograph(urlObj.hostname)]

EarlierIndicators(f) ==
     (IF f.shortener THEN <<"URL shortener detected">> ELSE <<>>)
  \o (IF f.isHttps THEN <<>> ELSE <<"Insecure HTTP connection">>)
  \o [k \in 1..Len(f.patterns) |-> EarlierMessages[f.patterns[k]]]
  \o (IF f.subdomains THEN <<"Multiple subdomains detected">> ELSE <<>>)
  \o (IF f.homograph THEN <<"Possible homograph attack">> ELSE <<>>)

\* score as lines 652-682 add it up; line 703 returns it as it is
EarlierScore(f) ==
    (IF f.shortener THEN 30 ELSE 0) + (IF f.isHttps THEN 0 ELSE 25)
  + 20 * Len(f.patterns) + (IF f.subdomains THEN 15 ELSE 0)
  + (IF f.homograph THEN 40 ELSE 0)

\* lines 685-699
EarlierRecommendations(score) ==
  IF score >= 60
  THEN <<"Do not visit this link", "Block this domain in your security software",
         "Report this link as malicious">>
  ELSE IF score >= 30
  THEN <<"Exercise extreme caution", "Verify the link source independently",
         "Consider using a sandbox environment">>
  ELSE <<"Link appears legitimate", "Continue to practice safe browsing habits">>

\* the return of lines 701-712
EarlierResult(inputUrl, redirects, domain, f, score) ==
  [url |-> inputUrl, riskLevel |-> LinkRiskLevel(score), score |-> score,
   indicators |-> EarlierIndicators(f),
   recommendations |-> EarlierRecommendations(score),
   details |-> [domain |-> domain, isHttps |-> f.isHttps, hasRedirects |-> redirects,
                reputation |-> Reputation(score)]]

\* the return of the catch block (lines 713-727)
EarlierInvalidUrlResult(inputUrl) ==
  [url |-> inputUrl, riskLevel |-> "dangerous", score |-> 100,
   indicators |-> <<"Invalid URL format">>,
   recommendations |-> <<"Enter a valid URL">>,
   details |-> [domain |-> "Invalid", isHttps |-> FALSE, hasRedirects |-> FALSE,
                reputation |-> "Unknown"]]

EarlierAnalyzeParsed(inputUrl, redirects, urlObj, f) ==
  EarlierResult(inputUrl, redirects, urlObj.hostname, f, EarlierScore(f))

EarlierAnalyzeUrlObj(inputUrl, redirects, urlObj) ==
  IF ~urlObj.ok THEN EarlierInvalidUrlResult(inputUrl)
  ELSE EarlierAnalyzeParsed(inputUrl, redirects, urlObj, EarlierFindings(inputUrl, urlObj))

\* analyzeLink of lines 628-733: new URL(inputUrl), with nothing prepended
EarlierAnalyzeLink(inputUrl, redirects) ==
  EarlierAnalyzeUrlObj(inputUrl, redirects, ParseURL(inputUrl))

\* onChange of the URL field (line 796), a scan waiting or not
EarlierSetUrl(u) ==
  /\ activeSection = "link"
  /\ url' = u
  /\ UNCHANGED <<activeSection, isScanning, scanResult, scanHistory, linkPending, emailVars>>

\* handleScan up to its await (lines 735-742), run by the scan button, which
\* is disabled while the URL is blank or a scan is on (line 804)
EarlierHandleScan ==
  /\ activeSection = "link"
  /\ ~(Trim(url) = "" \/ isScanning)
  /\ IF Trim(url) = ""
     THEN UNCHANGED <<isScanning, scanResult, linkPending>>
     ELSE /\ isScanning' = TRUE
          /\ scanResult' = Null
          /\ linkPending' = [url |-> url]
  /\ UNCHANGED <<activeSection, url, scanHistory, emailVars>>

\* handleScan after its await (lines 744-746): the timer has fired
EarlierScanComplete(redirects) ==
  /\ activeSection = "link"
  /\ linkPending # Null
  /\ scanResult' = EarlierAnalyzeLink(linkPending.url, redirects)
  /\ isScanning' = FALSE
  /\ linkPending' = Null
  /\ UNCHANGED <<activeSection, url, scanHistory, emailVars>>

\* the user leaves the section or comes to it, a scan waiting or not
EarlierSetActiveSection(section) ==
  /\ section # activeSection
  /\ activeSection' = section
  /\ url' = ""
  /\ isScanning' = FALSE
  /\ scanResult' = Null
  /\ linkPending' = Null
  /\ UNCHANGED <<scanHistory, emailVars>>

EarlierUrls ==
  {"https://example.com", "http://example.com", "example.com", "https://bit.ly/x",
   "http://192.168.1.1/verify-paypal-12345", "https://a.b.c.tk",
   "http://bit.ly/update-12345?h=1.2.3.4&s=.paypal.ml", "https://www.google.com/"}

EarlierNext ==
  \/ \E section \in {"home", "link"} : EarlierSetActiveSection(section)
  \/ \E u \in EarlierUrls : EarlierSetUrl(u)
  \/ EarlierHandleScan
  \/ \E redirects \in BOOLEAN : EarlierScanComplete(redirects)

EarlierSpec == Init /\ [][EarlierNext]_vars

(***************************************************************************)
(* The results a state holds                                               *)
(***************************************************************************)
\* the results analyzeEmail has returned to the mounted EmailScanner
EmailResultsHeld ==
  { emailCalls[k].result : k \in 1..Len(emailCalls) }
    \cup (IF emailScanResult = Null THEN {} ELSE {emailScanResult})

\* the results analyzeLink has returned to the mounted LinkScanner
LinkResultsHeld ==
  { scanHistory[k] : k \in 1..Len(scanHistory) }
    \cup (IF scanResult = Null THEN {} ELSE {scanResult})
    \cup (IF linkPending = Null THEN {} ELSE {linkPending.result})

\* the result of the catch block is the one whose only indicator is this one
IsInvalidUrlResult(r) ==
  r.indicators = <<[type |-> "url", message |-> "Invalid URL format", severity |-> "high"]>>

NewDomainMessage == "Newly registered domain (less than 30 days old)"
WithoutNewDomain(indicators) == SelectSeq(indicators, LAMBDA x : x.message # NewDomainMessage)
HasNewDomain(r) == \E k \in 1..Len(r.indicators) : r.indicators[k].message = NewDomainMessage

\* 30 for a high, 20 for a medium and 10 for a low severity indicator, summed
SeveritySum(indicators) ==
  30 * Cardinality({k \in 1..Len(indicators) : indicators[k].severity = "high"})
  + 20 * Cardinality({k \in 1..Len(indicators) : indicators[k].severity = "medium"})
  + 10 * Cardinality({k \in 1..Len(indicators) : indicators[k].severity = "low"})

(***************************************************************************)
(* C1: every score analyzeEmail returns, and every score analyzeLink       *)
(* returns, from its try block or from its catch block, is an integer      *)
(* from 0 to 100.                                                          *)
(***************************************************************************)
C1_ScoreInRange ==
  /\ \A r \in EmailResultsHeld : r.score \in 0..100
  /\ \A r \in LinkResultsHeld : r.score \in 0..100

\* an email whose detectors add up to more than 100 has been scored 100
C1_Witness ==
  \E k \in 1..Len(emailCalls) :
     /\ EmailRawScore(emailCalls[k].findings) > 100
     /\ emailCalls[k].result.score = 100

(***************************************************************************)
(* C2: in every result of analyzeEmail the riskLevel is the tier of the    *)
(* returned score (dangerous from 75, suspicious from 40 to 74, safe       *)
(* below 40), and the recommendations are the list of the tier, of 4, 4    *)
(* and 3 entries, the same whatever indicators fired.                      *)
(***************************************************************************)
C2_EmailTier ==
  /\ \A r \in EmailResultsHeld :
        /\ r.riskLevel \in {"dangerous", "suspicious", "safe"}
        /\ (r.riskLevel = "dangerous") = (r.score >= 75)
        /\ (r.riskLevel = "suspicious") = (r.score >= 40 /\ r.score < 75)
        /\ (r.riskLevel = "safe") = (r.score < 40)
        /\ Len(r.recommendations) = (IF r.riskLevel = "safe" THEN 3 ELSE 4)
  /\ \A r1, r2 \in EmailResultsHeld :
        r1.riskLevel = r2.riskLevel => r1.recommendations = r2.recommendations

\* two emails of one tier with different indicators have been analyzed
C2_Witness ==
  /\ Len(emailCalls) = 2
  /\ emailCalls[1].result.riskLevel = "suspicious"
  /\ emailCalls[2].result.riskLevel = "suspicious"
  /\ emailCalls[1].result.indicators # emailCalls[2].result.indicators

(***************************************************************************)
(* C3: in every result of analyzeLink, the one of the catch block          *)
(* included, the riskLevel is the tier of the returned score: dangerous    *)
(* from 60, suspicious from 30 to 59, safe below 30.                       *)
(***************************************************************************)
C3_LinkTier ==
  \A r \in LinkResultsHeld :
     /\ r.riskLevel \in {"dangerous", "suspicious", "safe"}
     /\ (r.riskLevel = "dangerous") = (r.score >= 60)
     /\ (r.riskLevel = "suspicious") = (r.score >= 30 /\ r.score < 60)
     /\ (r.riskLevel = "safe") = (r.score < 30)

\* the history holds a link scored exactly 60 and the scan of it that scored 80
C3_Witness ==
  /\ Len(scanHistory) = 2
  /\ scanHistory[1].score = 60 /\ scanHistory[1].riskLevel = "dangerous"
  /\ scanHistory[2].score = 80

(***************************************************************************)
(* C4: analyzeLink returns a result for every input (a scan that has       *)
(* started has its result), and returns the result of the catch block      *)
(* exactly for the inputs whose normalized form new URL rejects: dangerous,*)
(* 100, the one indicator "Invalid URL format", one recommendation, domain *)
(* "Invalid", no creation date, not HTTPS, no redirects, empty blacklist.  *)
(***************************************************************************)
C4_InvalidUrl ==
  /\ (activeSection = "link" /\ isScanning) => linkPending # Null
  /\ \A r \in LinkResultsHeld :
        IF ParseURL(NormalizeUrl(r.url)).ok
        THEN ~IsInvalidUrlResult(r) /\ r.technicalDetails.domain # "Invalid"
        ELSE /\ r.riskLevel = "dangerous"
             /\ r.score = 100
             /\ Len(r.indicators) = 1
             /\ r.indicators[1].message = "Invalid URL format"
             /\ Len(r.recommendations) = 1
             /\ r.technicalDetails.domain = "Invalid"
             /\ r.technicalDetails.creationDate = Null
             /\ r.technicalDetails.isHttps = FALSE
             /\ r.technicalDetails.hasRedirects = FALSE
             /\ r.technicalDetails.blacklistStatus = <<>>

\* "not a url" has been scanned and its result is shown
C4_Witness ==
  /\ scanResult # Null
  /\ scanResult.url = "not a url"
  /\ IsInvalidUrlResult(scanResult)

(***************************************************************************)
(* C5: the score analyzeEmail returns is                                   *)
(* min(100, 15 N + 25 M + 35 H + W + 10 G + 30 S), H being the number of   *)
(* hidden links, markdown links and HTML anchors alike, whose visible text *)
(* does not contain the target URL.  This is the statement of the          *)
(* specification; the code does not satisfy it.                            *)
(***************************************************************************)
\* the hidden link pattern with the closing quote of href referring to the
\* opening one (group 3)
ClosingQuotePattern ==
  <<Alt(<<
      <<Lit("["), Grp(1, <<Plus(<<NCls({"]"})>>)>>), Lit("]("),
        Grp(2, HttpScheme \o <<Plus(<<NotSpace>>)>>), Lit(")")>>,
      <<LitI("<a"), Plus(<<Cls(SpaceChars)>>),
        Opt(<<LazyRep(<<NCls({">"})>>, 0, Inf), Plus(<<Cls(SpaceChars)>>)>>),
        LitI("href="), Grp(3, <<Cls({"\"", "'"})>>),
        Grp(4, <<LazyRep(<<Dot>>, 0, Inf)>>), Ref(3),
        Star(<<NCls({">"})>>), Lit(">"),
        Grp(5, <<LazyRep(<<Dot>>, 0, Inf)>>), LitI("</a>")>>
  >>)>>

\* the hidden links of either form whose visible text does not contain the URL
HiddenLinkCount(content) ==
  Len(SelectSeq(HiddenLinksOf(SubjectI(content),
                              MatchAll(ClosingQuotePattern, SubjectI(content), 1)),
                LAMBDA link : ~Includes(link.displayText, link.url)))

PatternWeights == <<25, 30, 20, 25, 20, 15, 40, 50, 20, 30>>

ScoreFormula(content, f) ==
  Min(100, 15 * Len(f.urls) + 25 * Len(f.domains) + 35 * HiddenLinkCount(content)
           + SumSeq([k \in 1..Len(f.patterns) |-> PatternWeights[f.patterns[k]]])
           + 10 * f.grammar + 30 * (IF f.sender THEN 1 ELSE 0))

C5_ScoreFormula ==
  \A k \in 1..Len(emailCalls) :
     emailCalls[k].result.score = ScoreFormula(emailCalls[k].content, emailCalls[k].findings)

(***************************************************************************)
(* C6: in every result of analyzeLink that is not the result of the catch  *)
(* block, the score is min(100, sum over the indicators of 30 for high,    *)
(* 20 for medium, 10 for low), the HTTP indicator included.                *)
(***************************************************************************)
C6_SeveritySum ==
  \A r \in LinkResultsHeld :
     ~IsInvalidUrlResult(r) =>
        r.score = (IF SeveritySum(r.indicators) < 100 THEN SeveritySum(r.indicators) ELSE 100)

\* the statement for every result, the one of the catch block included
C6_Original ==
  \A r \in LinkResultsHeld :
     r.score = (IF SeveritySum(r.indicators) < 100 THEN SeveritySum(r.indicators) ELSE 100)

\* a result with the HTTP indicator among indicators that add up to over 100
C6_Witness ==
  /\ scanResult # Null
  /\ \E k \in 1..Len(scanResult.indicators) : scanResult.indicators[k].type = "security"
  /\ SeveritySum(scanResult.indicators) > 100
  /\ scanResult.score = 100

(***************************************************************************)
(* C7: "URGENT: verify your account now or it will be suspended!" fires    *)
(* the urgency entry (+25) and the account threat entry (+25) and no       *)
(* other detector (the call-to-action entry wants "verify account" or      *)
(* "verify identity", and the text has "verify your account"): score 50,   *)
(* riskLevel suspicious.                                                   *)
(***************************************************************************)
UrgentExample == "URGENT: verify your account now or it will be suspended!"

C7_UrgentExample ==
  \A k \in 1..Len(emailCalls) :
     emailCalls[k].content = UrgentExample =>
        /\ emailCalls[k].result.indicators =
             <<"Urgency tactics detected", "Account threat language">>
        /\ emailCalls[k].result.score = 50
        /\ emailCalls[k].result.riskLevel = "suspicious"

\* the statement with the call to action counted: 80 and dangerous
C7_Original ==
  \A k \in 1..Len(emailCalls) :
     emailCalls[k].content = UrgentExample =>
        /\ emailCalls[k].result.indicators =
             <<"Urgency tactics detected", "Suspicious call-to-action phrases",
               "Account threat language">>
        /\ emailCalls[k].result.score = 80
        /\ emailCalls[k].result.riskLevel = "dangerous"

\* the example has been scanned and its result is shown
C7_Witness ==
  /\ emailCalls # <<>>
  /\ emailCalls[Len(emailCalls)].content = UrgentExample
  /\ emailScanResult = emailCalls[Len(emailCalls)].result

(***************************************************************************)
(* C8: two results of analyzeLink for the same URL have the same           *)
(* indicators apart from the "Newly registered domain" indicator, which    *)
(* is drawn at random; when both or neither have it, they have the same    *)
(* indicators, score and riskLevel.                                        *)
(***************************************************************************)
C8_SameUrl ==
  \A r1, r2 \in LinkResultsHeld :
     r1.url = r2.url =>
        /\ WithoutNewDomain(r1.indicators) = WithoutNewDomain(r2.indicators)
        /\ HasNewDomain(r1) = HasNewDomain(r2) =>
              /\ r1.indicators = r2.indicators
              /\ r1.score = r2.score
              /\ r1.riskLevel = r2.riskLevel

\* the statement without the exception: same indicators, score and riskLevel
C8_Original ==
  \A r1, r2 \in LinkResultsHeld :
     r1.url = r2.url =>
        /\ r1.indicators = r2.indicators
        /\ r1.score = r2.score
        /\ r1.riskLevel = r2.riskLevel

\* the history holds two scans of one URL that differ in creationDate and
\* hasRedirects and in nothing the property fixes
C8_Witness ==
  /\ Len(scanHistory) = 2
  /\ scanHistory[1].url = scanHistory[2].url
  /\ HasNewDomain(scanHistory[1]) /\ HasNewDomain(scanHistory[2])
  /\ scanHistory[1].technicalDetails.creationDate # scanHistory[2].technicalDetails.creationDate
  /\ scanHistory[1].technicalDetails.hasRedirects # scanHistory[2].technicalDetails.hasRedirects

FiresAtLeast(b, a) ==
  /\ Len(b.urls) >= Len(a.urls)
  /\ Len(b.domains) >= Len(a.domains)
  /\ Len(b.hidden) >= Len(a.hidden)
  /\ b.grammar >= a.grammar
  /\ \A k \in 1..Len(a.patterns) : \E m \in 1..Len(b.patterns) : b.patterns[m] = a.patterns[k]
  /\ a.sender => b.sender

C10_Monotone ==
  \A i, j \in 1..Len(emailCalls) :
     FiresAtLeast(emailCalls[j].findings, emailCalls[i].findings) =>
        emailCalls[j].result.score >= emailCalls[i].result.score

\* a text, and then the text with a phrase appended that pushes the sum of
\* the detectors over 100, have been analyzed
C10_Witness ==
  /\ Len(emailCalls) = 2
  /\ emailCalls[1].content # emailCalls[2].content
  /\ FiresAtLeast(emailCalls[2].findings, emailCalls[1].findings)
  /\ emailCalls[1].result.score > 0
  /\ EmailRawScore(emailCalls[2].findings) > 100

(***************************************************************************)
(* C11: in every result of analyzeLink that is not the result of the catch *)
(* block, the recommendations are fixed by the riskLevel alone and end     *)
(* with "Always verify links before clicking" and "Use a password manager  *)
(* to avoid phishing sites".  The result of the catch block is dangerous   *)
(* and recommends "Please enter a valid URL" only.                         *)
(***************************************************************************)
EndsWithBaseline(recs) ==
  /\ Len(recs) >= 2
  /\ recs[Len(recs) - 1] = "Always verify links before clicking"
  /\ recs[Len(recs)] = "Use a password manager to avoid phishing sites"

C11_LinkRecommendations ==
  /\ \A r \in LinkResultsHeld :
        IF IsInvalidUrlResult(r)
        THEN r.riskLevel = "dangerous" /\ r.recommendations = <<"Please enter a valid URL">>
        ELSE EndsWithBaseline(r.recommendations)
  /\ \A r1, r2 \in LinkResultsHeld :
        ~IsInvalidUrlResult(r1) /\ ~IsInvalidUrlResult(r2) /\ r1.riskLevel = r2.riskLevel
           => r1.recommendations = r2.recommendations

\* the statement for every result, the one of the catch block included
C11_Original ==
  /\ \A r \in LinkResultsHeld : EndsWithBaseline(r.recommendations)
  /\ \A r1, r2 \in LinkResultsHeld :
        r1.riskLevel = r2.riskLevel => r1.recommendations = r2.recommendations

\* two scans of one URL are safe, with different indicators
C11_Witness ==
  /\ Len(scanHistory) = 2
  /\ scanHistory[1].riskLevel = "safe" /\ scanHistory[2].riskLevel = "safe"
  /\ scanHistory[1].indicators # scanHistory[2].indicators
  /\ EndsWithBaseline(scanHistory[1].recommendations)

(***************************************************************************)
(* C12: in every result of analyzeLink that is not the result of the catch *)
(* block, the reputation is Good below 30, Unknown from 30 to 59 and Poor  *)
(* from 60, so it is Poor exactly when the riskLevel is dangerous.  The    *)
(* result of the catch block is dangerous, scores 100 and has reputation   *)
(* Unknown.                                                                *)
(***************************************************************************)
ReputationOfScore(r) ==
  /\ (r.technicalDetails.reputation = "Good") = (r.score < 30)
  /\ (r.technicalDetails.reputation = "Unknown") = (r.score >= 30 /\ r.score < 60)
  /\ (r.technicalDetails.reputation = "Poor") = (r.score >= 60)
  /\ (r.technicalDetails.reputation = "Poor") = (r.riskLevel = "dangerous")

C12_Reputation ==
  \A r \in LinkResultsHeld :
     IF IsInvalidUrlResult(r)
     THEN r.technicalDetails.reputation = "Unknown" /\ r.score = 100
     ELSE ReputationOfScore(r)

\* the statement for every result, the one of the catch block included
C12_Original == \A r \in LinkResultsHeld : ReputationOfScore(r)

\* a link scored exactly 30 is shown with reputation Unknown
C12_Witness ==
  /\ scanResult # Null
  /\ scanResult.score = 30
  /\ scanResult.technicalDetails.reputation = "Unknown"
  /\ scanResult.riskLevel = "suspicious"

(***************************************************************************)
(* C13: in every result of analyzeLink that is not the result of the catch *)
(* block, blacklistStatus is <<"PhishTank", "Google Safe Browsing">> when  *)
(* the score is over 60 and empty otherwise.  The result of the catch      *)
(* block scores 100 and has an empty blacklistStatus.                      *)
(***************************************************************************)
BlacklistOfScore(r) ==
  r.technicalDetails.blacklistStatus =
    (IF r.score > 60 THEN <<"PhishTank", "Google Safe Browsing">> ELSE <<>>)

C13_Blacklist ==
  \A r \in LinkResultsHeld :
     IF IsInvalidUrlResult(r)
     THEN r.technicalDetails.blacklistStatus = <<>> /\ r.score = 100
     ELSE BlacklistOfScore(r)

\* the statement for every result, the one of the catch block included
C13_Original == \A r \in LinkResultsHeld : BlacklistOfScore(r)

\* a dangerous link scored exactly 60 is not blacklisted, its scan that
\* scored 80 is
C13_Witness ==
  /\ Len(scanHistory) = 2
  /\ scanHistory[2].score = 60 /\ scanHistory[2].technicalDetails.blacklistStatus = <<>>
  /\ scanHistory[1].score = 80 /\ Len(scanHistory[1].technicalDetails.blacklistStatus) = 2

(***************************************************************************)
(* C14: the scan history never holds more than 5 results; a scan that      *)
(* completes puts its result first, shown as scanResult, and keeps the     *)
(* results of before behind it in their order, all of them when there      *)
(* were fewer than 5 and the 4 newest when there were 5.                   *)
(***************************************************************************)
C14_History ==
  /\ [](Len(scanHistory) <= 5)
  /\ [][linkPending # Null /\ linkPending' = Null /\ activeSection' = "link" =>
          /\ Len(scanHistory') = (IF Len(scanHistory) < 5 THEN Len(scanHistory) + 1 ELSE 5)
          /\ scanHistory'[1] = linkPending.result
          /\ scanResult' = scanHistory'[1]
          /\ \A k \in 2..Len(scanHistory') : scanHistory'[k] = scanHistory[k - 1]]_vars

\* a scan of one URL is about to complete onto a history that holds 5
\* results of the two other URLs, the oldest unlike the one before it
C14_Witness ==
  /\ linkPending # Null
  /\ Len(scanHistory) = 5
  /\ scanHistory[5] # scanHistory[4]
  /\ \A k \in 1..5 : scanHistory[k] # linkPending.result

(***************************************************************************)
(* C15: a scanner component has a scan in flight exactly while its         *)
(* isScanning is true, and no step puts a new scan in flight while         *)
(* isScanning is true: the email scan button is disabled for that time,    *)
(* and the link scan, started by the button or by Enter, has completed     *)
(* before the next user event is handled.                                  *)
(***************************************************************************)
C15_OneScanInFlight ==
  /\ [](emailIsScanning <=> emailPending # Null)
  /\ [](isScanning <=> linkPending # Null)
  /\ [][/\ (emailPending' # Null /\ emailPending' # emailPending) => ~emailIsScanning
        /\ (linkPending' # Null /\ linkPending' # linkPending) => ~isScanning]_vars

\* an email scan is in flight and the text box holds another non-blank text,
\* which a second scan would analyze
C15_Witness ==
  /\ emailIsScanning
  /\ emailPending # Null
  /\ Trim(emailContent) # ""
  /\ emailContent # emailPending.content

(***************************************************************************)
(* C16 as stated: every scan that is started is followed by a state in     *)
(* which isScanning is false and scanResult holds a result.                *)
(***************************************************************************)
C16_Original ==
  /\ emailIsScanning ~> (~emailIsScanning /\ emailScanResult # Null)
  /\ isScanning ~> (~isScanning /\ scanResult # Null)

(***************************************************************************)
(* C16: no scanner stays in the scanning state for ever, and the scanning  *)
(* state ends in one of two ways only: the scan completes, and scanResult  *)
(* is then the analysis of the input the scan was started on, or, in the   *)
(* email scanner, the user leaves the section, which discards the          *)
(* component with its scan.                                                *)
(***************************************************************************)
C16_ScanCompletes ==
  /\ emailIsScanning ~> ~emailIsScanning
  /\ isScanning ~> ~isScanning
  /\ [][emailIsScanning /\ ~emailIsScanning' =>
          \/ activeSection' # "email" /\ emailScanResult' = Null
          \/ emailScanResult' = analyzeEmail(emailPending.content)]_vars
  /\ [][isScanning /\ ~isScanning' =>
          /\ activeSection' = "link"
          /\ scanResult' = linkPending.result
          /\ scanResult'.url = url']_vars

\* an email scan has completed on a text that the user has changed since
C16_Witness ==
  /\ activeSection = "email"
  /\ ~emailIsScanning
  /\ emailScanResult # Null
  /\ emailCalls # <<>>
  /\ emailCalls[Len(emailCalls)].content # emailContent
  /\ emailScanResult # analyzeEmail(emailContent)

(***************************************************************************)
(* C17: the indicators of a result are in the order in which the           *)
(* detectors run.  In an email result: link count, suspicious domains,     *)
(* hidden links (one indicator each), the entries of the pattern table in  *)
(* table order, misspellings, sender mismatch.  In a link result: the      *)
(* domain indicators (suspicious TLD, newly registered), the URL           *)
(* structure indicators (@, IP address, subdomains), the keyword           *)
(* indicators in table order, and the HTTP indicator last.                 *)
(***************************************************************************)
\* the place of the detector that writes msg in analyzeEmail, 0 if none does
EmailDetectorRank(msg) ==
  IF StartsWith(msg, "Contains ") THEN 1
  ELSE IF StartsWith(msg, "Suspicious domains detected: ") THEN 2
  ELSE IF StartsWith(msg, "Hidden link detected: ") THEN 3
  ELSE IF \E k \in 1..Len(suspiciousPatterns) : suspiciousPatterns[k].message = msg
       THEN 3 + (CHOOSE k \in 1..Len(suspiciousPatterns) : suspiciousPatterns[k].message = msg)
  ELSE IF StartsWith(msg, "Grammar/spelling errors detected (") THEN 14
  ELSE IF msg = "Sender and Reply-To address mismatch" THEN 15
  ELSE 0

\* the place of the check that writes the indicator in analyzeLink, 0 if none does
LinkDetectorRank(ind) ==
  IF ind.type = "domain" /\ StartsWith(ind.message, "Suspicious top-level domain (") THEN 1
  ELSE IF ind.type = "domain" /\ ind.message = NewDomainMessage THEN 2
  ELSE IF ind.type = "url" /\ StartsWith(ind.message, "URL contains @ symbol") THEN 3
  ELSE IF ind.type = "url" /\ StartsWith(ind.message, "URL uses direct IP address") THEN 4
  ELSE IF ind.type = "url" /\ StartsWith(ind.message, "Excessive subdomains (") THEN 5
  ELSE IF ind.type = "content"
          /\ \E k \in 1..Len(suspiciousKeywords) :
                ind.message = "Suspicious keyword in URL: " \o suspiciousKeywords[k].src
       THEN 5 + (CHOOSE k \in 1..Len(suspiciousKeywords) :
                   ind.message = "Suspicious keyword in URL: " \o suspiciousKeywords[k].src)
  ELSE IF ind.type = "security" THEN 10
  ELSE 0

C17_IndicatorOrder ==
  /\ \A r \in EmailResultsHeld :
        /\ \A i \in 1..Len(r.indicators) : EmailDetectorRank(r.indicators[i]) > 0
        /\ \A i, j \in 1..Len(r.indicators) :
              i < j => \/ EmailDetectorRank(r.indicators[i]) < EmailDetectorRank(r.indicators[j])
                       \/ /\ EmailDetectorRank(r.indicators[i]) = 3
                          /\ EmailDetectorRank(r.indicators[j]) = 3
  /\ \A r \in LinkResultsHeld :
        ~IsInvalidUrlResult(r) =>
           /\ \A i \in 1..Len(r.indicators) : LinkDetectorRank(r.indicators[i]) > 0
           /\ \A i, j \in 1..Len(r.indicators) :
                 i < j => LinkDetectorRank(r.indicators[i]) < LinkDetectorRank(r.indicators[j])

\* a link result lists a domain, a URL structure, a keyword and the HTTP
\* indicator, a medium one before a high one and a high one before a medium one
C17_Witness ==
  /\ scanResult # Null
  /\ \A t \in {"domain", "url", "content", "security"} :
        \E i \in 1..Len(scanResult.indicators) : scanResult.indicators[i].type = t
  /\ \E i, j \in 1..Len(scanResult.indicators) :
        i < j /\ scanResult.indicators[i].severity = "medium"
              /\ scanResult.indicators[j].severity = "high"
  /\ \E i, j \in 1..Len(scanResult.indicators) :
        i < j /\ scanResult.indicators[i].severity = "high"
              /\ scanResult.indicators[j].severity = "medium"

(***************************************************************************)
(* C18: every result of analyzeLink for http://192.168.1.1/paypal-login,   *)
(* whatever was drawn, is dangerous with score 100 and isHttps false, and  *)
(* has the IP address indicator (medium), the login keyword indicator      *)
(* (medium), the brand keyword indicator (high) and the HTTP indicator     *)
(* (high).                                                                 *)
(***************************************************************************)
IpLoginExample == "http://192.168.1.1/paypal-login"

HasIndicator(r, type, message, severity) ==
  \E k \in 1..Len(r.indicators) :
     r.indicators[k] = [type |-> type, message |-> message, severity |-> severity]

C18_IpLoginExample ==
  \A r \in LinkResultsHeld :
     r.url = IpLoginExample =>
        /\ r.riskLevel = "dangerous"
        /\ r.score = 100
        /\ r.technicalDetails.isHttps = FALSE
        /\ HasIndicator(r, "url", "URL uses direct IP address instead of domain name", "medium")
        /\ HasIndicator(r, "content", "Suspicious keyword in URL: login|signin|auth/i", "medium")
        /\ HasIndicator(r, "content", "Suspicious keyword in URL: bank|paypal|amazon|ebay/i", "high")
        /\ HasIndicator(r, "security", "Connection is not secure (HTTP instead of HTTPS)", "high")

\* the example has been scanned twice: one scan drew a new domain and has
\* five indicators, the other has the four
C18_Witness ==
  /\ Len(scanHistory) = 2
  /\ scanHistory[1].url = IpLoginExample /\ scanHistory[2].url = IpLoginExample
  /\ Len(scanHistory[1].indicators) = 5 /\ HasNewDomain(scanHistory[1])
  /\ Len(scanHistory[2].indicators) = 4 /\ SeveritySum(scanHistory[2].indicators) = 100

(***************************************************************************)
(* C19: when analyzeEmail finds nothing in a text (no link, no hidden      *)
(* link, no entry of the pattern table, no misspelling, no sender          *)
(* mismatch), its result has score 0, no indicators and riskLevel safe;    *)
(* it finds nothing in "Meeting moved to 3pm tomorrow, see you then.".     *)
(***************************************************************************)
MeetingExample == "Meeting moved to 3pm tomorrow, see you then."

\* no detector has matched
NothingFound(f) ==
  /\ f.urls = <<>>
  /\ f.domains = <<>>
  /\ f.hidden = <<>>
  /\ f.patterns = <<>>
  /\ f.grammar = 0
  /\ ~f.sender

C19_NoMatch ==
  \A k \in 1..Len(emailCalls) :
     /\ emailCalls[k].content = MeetingExample => NothingFound(emailCalls[k].findings)
     /\ NothingFound(emailCalls[k].findings) =>
           /\ emailCalls[k].result.score = 0
           /\ emailCalls[k].result.indicators = <<>>
           /\ emailCalls[k].result.riskLevel = "safe"

\* the example has been scanned and its result, with score 0, is shown
C19_Witness ==
  /\ emailCalls # <<>>
  /\ emailCalls[Len(emailCalls)].content = MeetingExample
  /\ emailScanResult = emailCalls[Len(emailCalls)].result
  /\ emailScanResult.score = 0

(***************************************************************************)
(* C20: for every input that begins with neither "http://" nor             *)
(* "https://", when "https://" followed by the input is a valid URL the    *)
(* result of analyzeLink is not the result of the catch block, has         *)
(* isHttps true and has no HTTP indicator.  This is the statement of the   *)
(* specification; the code, which tests for the prefix "http" alone,       *)
(* does not satisfy it.                                                    *)
(***************************************************************************)
HasSchemePrefix(inputUrl) == StartsWith(inputUrl, "http://") \/ StartsWith(inputUrl, "https://")

C20_Normalization ==
  \A r \in LinkResultsHeld :
     (~HasSchemePrefix(r.url) /\ ParseURL("https://" \o r.url).ok) =>
        /\ ~IsInvalidUrlResult(r)
        /\ r.technicalDetails.isHttps
        /\ \A k \in 1..Len(r.indicators) : r.indicators[k].type # "security"

(***************************************************************************)
(* C21 as stated: in every result of analyzeLink the creationDate is       *)
(* non-null exactly when the "Newly registered domain" indicator is        *)
(* among the indicators.                                                   *)
(***************************************************************************)
C21_Original ==
  \A r \in LinkResultsHeld :
     (r.technicalDetails.creationDate # Null) = HasNewDomain(r)

(***************************************************************************)
(* C21: in every result of analyzeLink the "Newly registered domain"       *)
(* indicator comes with a creationDate, and a creationDate comes without   *)
(* the indicator in one case only: the date is the earliest one the draw   *)
(* can produce, DrawDays - 1 days back, and the clock read of the test     *)
(* (line 72) falls on the day after the clock read of the date (line 71).  *)
(* The date, cut to midnight, is then NewDomainDays days old and not       *)
(* less.                                                                   *)
(***************************************************************************)
\* the draw whose date the test of line 72 rejects
MidnightPassed(rnd) ==
  rnd.newly /\ rnd.daysBack = DrawDays - 1 /\ rnd.tod + rnd.tick >= DayTicks

C21_CreationDate ==
  /\ \A r \in LinkResultsHeld :
        /\ HasNewDomain(r) => r.technicalDetails.creationDate # Null
        /\ (r.technicalDetails.creationDate # Null /\ ~HasNewDomain(r)) =>
              r.technicalDetails.creationDate = IsoDate((SessionDay - (DrawDays - 1)) * DayTicks)
  /\ \A rnd \in Draws :
        /\ (analyzeDomain(url, rnd).creationDate # Null) = rnd.newly
        /\ (analyzeDomain(url, rnd).creationDate # Null
               /\ analyzeDomain(url, rnd).indicators = analyzeDomain(url, [rnd EXCEPT !.newly = FALSE]).indicators)
             = MidnightPassed(rnd)

\* a result is shown with a creationDate and without the indicator
C21_Witness ==
  /\ scanResult # Null
  /\ scanResult.technicalDetails.creationDate # Null
  /\ ~HasNewDomain(scanResult)
  /\ ~IsInvalidUrlResult(scanResult)

(***************************************************************************)
(* C22: when analyzeEmail extracts at least one link from a text, the      *)
(* last entry of the pattern table, which is the same expression, matches  *)
(* too: the result has both indicators, scores at least 45 (15 a link and  *)
(* 30 for the entry) and is not safe, also when the domain of every link   *)
(* is on the allow-list.  The entry matches no text without a link.        *)
(***************************************************************************)
UrlEntry == Len(suspiciousPatterns)

HasUrlEntry(f) == \E m \in 1..Len(f.patterns) : f.patterns[m] = UrlEntry

C22_LinkCountedTwice ==
  \A k \in 1..Len(emailCalls) :
     /\ HasUrlEntry(emailCalls[k].findings) = (Len(emailCalls[k].findings.urls) >= 1)
     /\ Len(emailCalls[k].findings.urls) >= 1 =>
           /\ emailCalls[k].result.score >= 45
           /\ emailCalls[k].result.riskLevel # "safe"
           /\ EmailDetectorRank(emailCalls[k].result.indicators[1]) = 1
           /\ \E i \in 1..Len(emailCalls[k].result.indicators) :
                 emailCalls[k].result.indicators[i] = suspiciousPatterns[UrlEntry].message

\* a text whose one link is on the allow-list has been scored 45, suspicious
C22_Witness ==
  /\ emailCalls # <<>>
  /\ Len(emailCalls[Len(emailCalls)].findings.urls) = 1
  /\ emailCalls[Len(emailCalls)].findings.domains = <<>>
  /\ emailScanResult # Null
  /\ emailScanResult.score = 45
  /\ emailScanResult.riskLevel = "suspicious"
  /\ Len(emailScanResult.indicators) = 2

(***************************************************************************)
(* C23: in every result of analyzeLink for a URL that parses, the          *)
(* "Excessive subdomains" indicator (medium) is present exactly when the   *)
(* host name has more than 3 subdomains, the number of its labels less 2,  *)
(* and the message gives that number; a dot in the path does not count.    *)
(* This is the statement of the specification; the code, which splits the  *)
(* whole input at its dots, does not satisfy it.                           *)
(***************************************************************************)
\* the labels of the host name of the URL, less 2
HostSubdomains(inputUrl) == Len(Split(ParseURL(NormalizeUrl(inputUrl)).hostname, ".")) - 2

SubdomainIndicators(r) ==
  SelectSeq(r.indicators, LAMBDA x : StartsWith(x.message, "Excessive subdomains ("))

C23_HostSubdomains ==
  \A r \in LinkResultsHeld :
     ~IsInvalidUrlResult(r) =>
        SubdomainIndicators(r) =
          (IF HostSubdomains(r.url) > 3
           THEN <<[type |-> "url",
                   message |-> "Excessive subdomains (" \o ToString(HostSubdomains(r.url)) \o ")",
                   severity |-> "medium"]>>
           ELSE <<>>)

(***************************************************************************)
(* C24: in every result of analyzeLink for a URL that parses,              *)
(* technicalDetails.domain is the host name without its leading "www."     *)
(* when it has one and the host name as it is otherwise: a "www." further  *)
(* on in the host name stays.  This is the statement of the                *)
(* specification; the code, which removes the first "www." wherever it     *)
(* is, does not satisfy it.                                                *)
(***************************************************************************)
HostOf(inputUrl) == ParseURL(NormalizeUrl(inputUrl)).hostname

WithoutLeadingWww(host) ==
  IF StartsWith(host, "www.") THEN SubSeq(host, 5, Len(host)) ELSE host

C24_LeadingWww ==
  \A r \in LinkResultsHeld :
     ~IsInvalidUrlResult(r) => r.technicalDetails.domain = WithoutLeadingWww(HostOf(r.url))

(***************************************************************************)
(* C25: every result of the earlier analyzeLink, from its try block or     *)
(* from its catch block, has a score from 0 to 100.  This is the           *)
(* statement of the specification; the earlier analyzeLink returns the     *)
(* sum of its checks as it is, and the sum can pass 100.                   *)
(***************************************************************************)
C25_EarlierScoreInRange ==
  scanResult # Null => scanResult.score \in 0..100

(***************************************************************************)
(* C26: while isScanning is true, in the email scanner and in the link     *)
(* scanner, scanResult is null: handleScan clears it when it sets          *)
(* isScanning, and no handler, the click on a history entry included,      *)
(* runs before the scan has completed and set it again.                    *)
(***************************************************************************)
C26_NoResultWhileScanning ==
  /\ emailIsScanning => emailScanResult = Null
  /\ isScanning => scanResult = Null

\* a second link scan is in flight: the result of the first, which was
\* shown, is in the history and is not shown
C26_Witness ==
  /\ isScanning
  /\ Len(scanHistory) >= 1
  /\ scanResult = Null
  /\ linkPending # Null

(***************************************************************************)
(* C27: the step that completes a link scan puts the result of the scan,   *)
(* the invalid-URL result of the catch block like any other, at the head   *)
(* of the history and shows it: after the step scanResult is the first     *)
(* entry of the history and is the result for the URL of the field.        *)
(***************************************************************************)
C27_CompletedScanRecorded ==
  [][linkPending # Null /\ linkPending' = Null /\ activeSection' = "link" =>
        /\ scanHistory' # <<>>
        /\ scanHistory'[1] = linkPending.result
        /\ scanResult' = scanHistory'[1]
        /\ scanResult'.url = url']_vars

\* the scan of a malformed URL has completed after the scan of another URL:
\* its result is shown and is the first of the two entries of the history
C27_Witness ==
  /\ scanResult # Null
  /\ IsInvalidUrlResult(scanResult)
  /\ Len(scanHistory) = 2
  /\ scanHistory[1] = scanResult
  /\ ~IsInvalidUrlResult(scanHistory[2])

(***************************************************************************)
(* C28 as stated: through every step of the session, a change of section   *)
(* included, a result in the history stays in it, one place further down   *)
(* when a scan completes, and leaves it only from the fifth place, when a  *)
(* scan completes.                                                         *)
(***************************************************************************)
\* the step completes a link scan
ScanCompletes == linkPending # Null /\ linkPending' = Null /\ activeSection' = "link"

\* the entries stay, moved one place down by a scan that completes
HistoryKept ==
  IF ScanCompletes
  THEN \A k \in 1..Len(scanHistory) :
          k < 5 => k + 1 <= Len(scanHistory') /\ scanHistory'[k + 1] = scanHistory[k]
  ELSE scanHistory' = scanHistory

C28_Original == [][HistoryKept]_vars

(***************************************************************************)
(* C28: the history is state of the LinkScanner component.  While the      *)
(* link section stays the active one, a result in the history stays in     *)
(* it, one place further down when a scan completes, and leaves it only    *)
(* from the fifth place, when a scan completes.  A change of the active    *)
(* section unmounts the component: the history is empty after it, and      *)
(* empty when the user comes back to the link section.                     *)
(***************************************************************************)
C28_HistoryLifetime ==
  [][IF activeSection' # activeSection THEN scanHistory' = <<>> ELSE HistoryKept]_vars

\* four scans after its own, the oldest result is the fifth of the history,
\* and a click on it has brought it back to the display
C28_Witness ==
  /\ activeSection = "link"
  /\ Len(scanHistory) = 5
  /\ scanResult = scanHistory[5]
  /\ \A k \in 1..4 : scanHistory[k] # scanHistory[5]

(***************************************************************************)
(* C29: a click on entry k of the history sets url to the URL of the       *)
(* entry and scanResult to the entry, as it was recorded, and changes      *)
(* nothing else: the history and isScanning stay as they are and no scan   *)
(* starts.  No other step of the link scanner changes the result shown     *)
(* without a scan starting or completing.                                  *)
(***************************************************************************)
C29_HistoryClick ==
  /\ [][\A k \in 1..MaxHistory :
          HistoryClick(k) =>
             /\ url' = scanHistory[k].url
             /\ scanResult' = scanHistory[k]
             /\ scanHistory' = scanHistory
             /\ isScanning' = isScanning
             /\ linkPending' = Null]_vars
  /\ [][(/\ activeSection = "link" /\ activeSection' = "link"
         /\ linkPending = Null /\ linkPending' = Null
         /\ scanResult' # scanResult) =>
             /\ \E k \in 1..Len(scanHistory) : scanResult' = scanHistory[k]
             /\ url' = scanResult'.url
             /\ scanHistory' = scanHistory
             /\ ~isScanning /\ ~isScanning']_vars

\* of two scans of one URL the older is shown, after a click on it, with the
\* draws of its own scan
C29_Witness ==
  /\ Len(scanHistory) = 2
  /\ scanHistory[1].url = scanHistory[2].url
  /\ scanHistory[1] # scanHistory[2]
  /\ scanResult = scanHistory[2]
  /\ url = scanResult.url
  /\ ~isScanning

(***************************************************************************)
(* C30: while the input of a scanner is empty or white space only and no   *)
(* scan is in flight, no step that leaves the input as it is, the trigger  *)
(* of a scan among them, changes isScanning, scanResult or the history,    *)
(* starts a scan or calls an analyzer.                                     *)
(***************************************************************************)
C30_BlankInput ==
  /\ [][(/\ activeSection = "email" /\ activeSection' = "email"
         /\ Trim(emailContent) = "" /\ emailContent' = emailContent
         /\ emailPending = Null) =>
            UNCHANGED <<emailIsScanning, emailScanResult, emailPending, emailCalls>>]_vars
  /\ [][(/\ activeSection = "link" /\ activeSection' = "link"
         /\ Trim(url) = "" /\ url' = url
         /\ linkPending = Null) =>
            UNCHANGED <<isScanning, scanResult, scanHistory, linkPending>>]_vars

\* a result is shown, the history holds it, and the URL field holds one space
C30_Witness ==
  /\ activeSection = "link"
  /\ url = " "
  /\ scanResult # Null
  /\ scanHistory # <<>>
  /\ ~isScanning

====
